---- MODULE Spec2Model ----
(***************************************************************************)
(* Model of the stateful core of the typebot WhatsApp relay:               *)
(*   - the per-user promise-chained lock          (src/src/utils/user-lock.ts) *)
(*   - the message pipeline and the dialogue-session decision              *)
(*     (src/src/services/message-processing.service.ts, typebot.service.ts,*)
(*      session.service.ts)                                                *)
(* Each asynchronous function is cut at its awaits: one action is the code *)
(* that runs synchronously between two suspension points.                  *)
(***************************************************************************)
EXTENDS Integers, Sequences, FiniteSets, TLC

(***************************************************************************)
(* Bounds of the model.                                                    *)
(***************************************************************************)
NumCallers == 3
NumKeys == 2

NumMsgs == 2
NumUsers == 1

\* the longest url path, in segments
MaxSegments == 3

\* how long the clock of the two caches runs, in minutes
MaxTime == 10

\* how far one step of the clock moves it, in minutes
ClockStep == 5

Callers == 1..NumCallers
Keys == 1..NumKeys
Msgs == 1..NumMsgs
Users == 1..NumUsers

\* "no lock" / "no caller": the undefined returned by userLocks.get
NoLock == 0

VARIABLES
  userLocks,     \* the Map waId -> Promise; a promise is named by the call that made it
  resolved,      \* the lock promises whose resolve() has been called
  lpc,           \* where each withUserLock call stands
  waId,          \* the key each call was made with
  existingLock,  \* the promise the call read at line 24 (NoLock when none)
  opOutcome,     \* how the call's operation settled: "none", "ok", "err"
  callResult,    \* what withUserLock gave its caller: "none", "returned", "threw"
  opRuns,        \* how many times the call's operation was invoked
  sawRunning     \* history: the calls on the same key whose operation was running
                 \* when this call was dispatched

lockVars == <<userLocks, resolved, lpc, waId, existingLock, opOutcome,
              callResult, opRuns, sawRunning>>

VARIABLES
  users,                 \* the durable user table: activeTypebotSlug, activeSessionId
  activeChoiceSessions,  \* session.service.ts:11 - the in-memory ChoiceSet per user
  expectedInputTypes,    \* session.service.ts:19 - the in-memory expected input per user
  pm,                    \* the processMessage invocations: position and locals
  startCalls,            \* history: how many times the invocation called startChat
  matchedOn,             \* history: the ChoiceSet (stamp + 1) the invocation matched on
  concurrentWith,        \* history: same-user invocations in progress at its arrival
  handled                \* history: the response the invocation sent on, and how

pipeVars == <<users, activeChoiceSessions, expectedInputTypes, pm, startCalls,
              matchedOn, concurrentWith, handled>>

VARIABLES
  redirectUrl,    \* the url handed to extractTypebotIdFromUrl
  newTypebotSlug, \* what extractTypebotIdFromUrl returned for it
  utterance,      \* a text, to be typed and to be spoken
  typedContent,   \* what goes to the dialogue service when it is typed
  spokenContent,  \* what goes to the dialogue service when it is transcribed
  setCall,        \* the last call of setActiveTypebotId: its arguments and result
  heard,          \* the transcription handed to matchTranscriptionToChoice
  offered,        \* the choices handed to it
  matchResult     \* what it returned

matchVars == <<heard, offered, matchResult>>

fnVars == <<redirectUrl, newTypebotSlug, utterance, typedContent,
            spokenContent, setCall, matchVars>>

VARIABLES
  now,              \* Date.now(), in minutes since the process started
  nextSweep,        \* when the setInterval callback of the sweep is due
  choiceTimestamp,  \* session.service.ts:14 - timestamp of the user's ChoiceSet entry
  inputTimestamp,   \* session.service.ts:21 - timestamp of the user's input entry
  choiceStored,     \* history: the ChoiceSet last stored for the user and neither
                    \* cleared nor found expired since, <<>> if none
  inputStored,      \* history: the same for the user's expected input type
  activeChoiceRows,       \* the ActiveChoice table, one row per user at most
  expectedInputTypeRows,  \* the ExpectedInputType table
  lastCall          \* the last step of the clock or call on the caches, and its result

cacheVars == <<now, nextSweep, choiceTimestamp, inputTimestamp, choiceStored,
               inputStored, activeChoiceRows, expectedInputTypeRows, lastCall>>

VARIABLES
  inFlight,     \* the ActiveChoice writes issued to the store and not yet settled
  writeFailed   \* history: a write of the user's ActiveChoice row was rejected

writeVars == <<inFlight, writeFailed>>

VARIABLES
  lastRejectionNotifiedAt,  \* the column of the user row, Never when null
  wl,                       \* the processMessage invocations of a user who is
                            \* not whitelisted: position and locals
  rejectionsSent            \* history: when the rejection text was sent to the user

whitelistVars == <<lastRejectionNotifiedAt, wl, rejectionsSent>>

VARIABLES
  api   \* the startChat and continueChat calls: their retry loops and requests

VARIABLES
  nestedIn   \* the withUserLock call from whose operation the call was made,
             \* NoLock for a call made from outside

sideVars == <<writeVars, whitelistVars, api, nestedIn>>

vars == <<lockVars, pipeVars, fnVars, cacheVars, sideVars>>

\* what a step of one component leaves alone
notLockVars == <<pipeVars, fnVars, cacheVars, sideVars>>
notPipeVars == <<lockVars, fnVars, cacheVars, sideVars>>
notCacheVars == <<lockVars, fnVars, users, pm, startCalls, matchedOn,
                  concurrentWith, handled, sideVars>>
\* ... and what a step of the pipeline before sendTypebotResponse leaves alone
notReceiveVars == <<notPipeVars, handled>>
notFnVars == <<lockVars, pipeVars, cacheVars, sideVars>>
notUserVars == <<lockVars, cacheVars, activeChoiceSessions, expectedInputTypes,
                 pm, startCalls, matchedOn, concurrentWith, handled,
                 redirectUrl, newTypebotSlug, utterance, typedContent,
                 spokenContent, matchVars, sideVars>>
notMatchVars == <<lockVars, pipeVars, cacheVars, redirectUrl, newTypebotSlug,
                  utterance, typedContent, spokenContent, setCall,
                  sideVars>>
notWriteVars == <<lockVars, fnVars, users, expectedInputTypes, pm, startCalls,
                  matchedOn, concurrentWith, handled, now, nextSweep,
                  choiceTimestamp, inputTimestamp, choiceStored, inputStored,
                  expectedInputTypeRows, lastCall, whitelistVars, api,
                  nestedIn>>
notWhitelistVars == <<lockVars, pipeVars, fnVars, nextSweep, choiceTimestamp,
                      inputTimestamp, choiceStored, inputStored,
                      activeChoiceRows, expectedInputTypeRows, lastCall,
                      writeVars, api, nestedIn>>
notApiVars == <<lockVars, pipeVars, fnVars, cacheVars, writeVars,
                whitelistVars, nestedIn>>
notNestVars == <<pipeVars, fnVars, cacheVars, writeVars, whitelistVars, api>>

(***************************************************************************)
(* user-lock.ts                                                            *)
(***************************************************************************)

\* A mutant: one lock for all users.
LockKeyGlobal(k) == 1

\* user-lock.ts:24,34,42 - the map is keyed by the waId the call was given
LockKey(k) == k

\* A mutant: the call does not wait for the promise it read.
LockSettledNoWait(l) == TRUE

\* user-lock.ts:25-27 - `await existingLock` resumes once that promise is resolved
LockSettled(l) == l \in resolved

\* The calls whose operation is executing on key k.
Operating(k) == {c \in Callers : lpc[c] = "operating" /\ waId[c] = k}

\* The calls that have been made on key k.
Dispatched(k) == {c \in Callers : lpc[c] # "idle" /\ waId[c] = k}

\* user-lock.ts:29-37 - create the lock, publish it, invoke the operation
StartOperation(c, k) ==
  /\ userLocks' = [userLocks EXCEPT ![LockKey(k)] = c]
  /\ opRuns' = [opRuns EXCEPT ![c] = @ + 1]
  /\ lpc' = [lpc EXCEPT ![c] = "operating"]

\* user-lock.ts:19-37 - a call arrives; it reads the map and either suspends on
\* the promise found or goes straight on to its operation
withUserLock(c, k) ==
  /\ lpc[c] = "idle"
  /\ waId' = [waId EXCEPT ![c] = k]
  /\ sawRunning' = [sawRunning EXCEPT ![c] = Operating(k)]
  /\ existingLock' = [existingLock EXCEPT ![c] = userLocks[LockKey(k)]]
  /\ IF userLocks[LockKey(k)] # NoLock
       THEN /\ lpc' = [lpc EXCEPT ![c] = "awaiting"]
            /\ UNCHANGED <<userLocks, opRuns>>
       ELSE StartOperation(c, k)
  /\ UNCHANGED <<resolved, opOutcome, callResult>>

\* user-lock.ts:26-37 - the awaited promise has resolved; the call goes on
AwaitExistingLock(c) ==
  /\ lpc[c] = "awaiting"
  /\ LockSettled(existingLock[c])
  /\ StartOperation(c, waId[c])
  /\ UNCHANGED <<resolved, waId, existingLock, opOutcome, callResult, sawRunning>>

\* user-lock.ts:37 - the operation's promise settles (fulfilled or rejected)
OperationSettles(c, r) ==
  /\ lpc[c] = "operating"
  /\ opOutcome' = [opOutcome EXCEPT ![c] = r]
  /\ lpc' = [lpc EXCEPT ![c] = "settled"]
  /\ UNCHANGED <<userLocks, resolved, waId, existingLock, callResult, opRuns,
                 sawRunning>>

\* A mutant: the lock is released on the normal path only (no try/finally).
ReleaseOnSuccessOnly(c) ==
  /\ lpc[c] = "settled"
  /\ resolved' = IF opOutcome[c] = "ok" THEN resolved \cup {c} ELSE resolved
  /\ userLocks' = IF opOutcome[c] = "ok" /\ userLocks[LockKey(waId[c])] = c
                    THEN [userLocks EXCEPT ![LockKey(waId[c])] = NoLock]
                    ELSE userLocks
  /\ callResult' = [callResult EXCEPT
                      ![c] = IF opOutcome[c] = "ok" THEN "returned" ELSE "threw"]
  /\ lpc' = [lpc EXCEPT ![c] = "done"]
  /\ UNCHANGED <<waId, existingLock, opOutcome, opRuns, sawRunning>>

\* user-lock.ts:38-45 - finally: resolve the lock, delete the entry if it is
\* still this call's lock, then return the value or rethrow the error
ReleaseLock(c) ==
  /\ lpc[c] = "settled"
  /\ resolved' = resolved \cup {c}
  /\ userLocks' = IF userLocks[LockKey(waId[c])] = c
                    THEN [userLocks EXCEPT ![LockKey(waId[c])] = NoLock]
                    ELSE userLocks
  /\ callResult' = [callResult EXCEPT
                      ![c] = IF opOutcome[c] = "ok" THEN "returned" ELSE "threw"]
  /\ lpc' = [lpc EXCEPT ![c] = "done"]
  /\ UNCHANGED <<waId, existingLock, opOutcome, opRuns, sawRunning>>

\* user-lock.ts:51-53
getActiveLockCount == Cardinality({k \in Keys : userLocks[k] # NoLock})

\* user-lock.ts:9 - no lock held, no call made
LockIdle ==
  /\ userLocks = [k \in Keys |-> NoLock]
  /\ resolved = {}
  /\ lpc = [c \in Callers |-> "idle"]
  /\ waId = [c \in Callers |-> 1]
  /\ existingLock = [c \in Callers |-> NoLock]
  /\ opOutcome = [c \in Callers |-> "none"]
  /\ callResult = [c \in Callers |-> "none"]
  /\ opRuns = [c \in Callers |-> 0]
  /\ sawRunning = [c \in Callers |-> {}]

(***************************************************************************)
(* The message pipeline: message-processing.service.ts, typebot.service.ts,*)
(* session.service.ts.  Calls that touch neither the user table nor the    *)
(* in-memory maps (reactions, sends, the message log) are left out of the  *)
(* step they belong to.  The user row exists whenever the pipeline updates *)
(* it, so prisma.user.update is taken to succeed.                          *)
(***************************************************************************)

\* null / undefined: no session id, no flow slug, no file url
NoSession == 0
\* the sessionId argument of setActiveTypebotId: null, or left out
SessionNull == -1
SessionOmitted == -2
NoFlow == "none"
NoFile == "none"
NoInput == "none"

\* config.ts:58,85 - typebot.id, the flow every user starts on
DefaultFlow == "default"
\* a flow a redirect can lead to
OtherFlow == "flowB"

\* the url uploadFileToTypebot returns
FileUrl == "https://files/upload-1"

\* the items of a "choice input"
ChoiceList ==
  <<[id |-> "a", content |-> "Sim"], [id |-> "b", content |-> "Nao"]>>

NoChoiceSession ==
  [present |-> FALSE, sessionId |-> NoSession, choices |-> <<>>, stamp |-> 0]

\* typebot.types.ts:7-33 - what a start or continue response can carry besides
\* its session id: an input declaration and a redirect (a well-formed url, or
\* one with no flow in it)
Responses ==
  [input : {NoInput, "choice input", "text input", "file input"},
   redirect : {"none", "ok", "bad"}]

\* no dialogue call outstanding
NoRequest ==
  [op |-> "none", origin |-> "none", sessionId |-> NoSession, flow |-> NoFlow,
   message |-> ""]

\* webhook.controller.ts:201-268 - the inbound messages: <<type, content>>
Inbound ==
  {<<"text", "1">>, <<"text", "xyz">>, <<"text", "VOLTAR">>,
   <<"audio", "[Audio Message]">>, <<"image", "[Image]">>, <<"button", "Sim">>}

\* what transcribeAudio can return as text
Transcripts == {"1", "xyz"}

IdleMessage ==
  [pc |-> "idle", waId |-> 1, type |-> "text", content |-> "",
   sessionId |-> NoSession, finalContent |-> "", fileUrl |-> NoFile,
   activeTypebotId |-> NoFlow, activeChoices |-> NoChoiceSession,
   request |-> NoRequest, recovered |-> NoRequest, error |-> ""]

\* the locals of a processMessage that has returned are dead
Returned(m, how) == [IdleMessage EXCEPT !.pc = how, !.waId = pm[m].waId]

\* the processMessage invocations of user u that have not returned
InFlight(u) ==
  {d \in Msgs : pm[d].waId = u /\ pm[d].pc \notin {"idle", "rejected", "done", "failed"}}

\* JavaScript a || b on slugs and on session ids
OrFlow(a, b) == IF a # NoFlow THEN a ELSE b
OrSession(a, b) == IF a # NoSession THEN a ELSE b

\* The texts of the model, typed or transcribed.  A text is taken word by
\* word: Words gives its words once lower-cased, trimmed and stripped of
\* punctuation (choice-matcher.service.ts:135-143, without the fillers).  No
\* word of the model is part of another, so that String.includes on the
\* cleaned strings is containment of word sequences.
Texts == {"1", "3", "dois", "um", "Sim", "sim nao", "opcao 2", "xyz", " "}
Words(text) ==
  CASE text = "Sim" -> <<"sim">>
    [] text = "Nao" -> <<"nao">>
    [] text = "Talvez" -> <<"talvez">>
    [] text = "sim nao" -> <<"sim", "nao">>
    [] text = "nao sim" -> <<"nao", "sim">>
    [] text = "sim dois" -> <<"sim", "dois">>
    [] text = "opcao 2" -> <<"opcao", "2">>
    [] text = "sim 2" -> <<"sim", "2">>
    [] text = "3 1" -> <<"3", "1">>
    [] text = "dois 1" -> <<"dois", "1">>
    [] text = "vinte e um" -> <<"vinte", "e", "um">>
    [] text = "tr^es" -> <<"tr", "s">>  \* ^e: e with a circumflex, not in \w
    [] text \in {"", " ", "..."} -> <<>>
    [] OTHER -> <<text>>

\* the value of a word made of digits; 0 for any other word
DigitValue(word) ==
  CASE word = "1" -> 1 [] word = "2" -> 2 [] word = "3" -> 3 [] OTHER -> 0

\* parseInt(content.trim(), 10): the digits the text begins with; 0 stands
\* for NaN
ParseInt(text) ==
  IF Words(text) # <<>> THEN DigitValue(Words(text)[1]) ELSE 0

\* message-processing.service.ts:476-480 - the choice a typed text selects by
\* its number, 0 when none
SelectedChoice(content, activeChoices) ==
  LET choiceNumber == ParseInt(content) IN
  IF choiceNumber >= 1 /\ choiceNumber <= Len(activeChoices)
    THEN choiceNumber ELSE 0

\* choice-matcher.service.ts:138 - the filler words cleanText removes
Fillers ==
  {"um", "uh", "eh", "ah", "hmm", "er", "erm", "like", "ne", "tipo", "assim"}

\* choice-matcher.service.ts:134-144 - cleanText, as the words that remain
cleanText(text) == SelectSeq(Words(text), LAMBDA word : word \notin Fillers)

\* choice-matcher.service.ts:149-152 - numberWords on the words of the model
numberWords(word) ==
  CASE word \in {"um", "uma", "primeiro", "primeira"} -> 1
    [] word \in {"dois", "duas", "segundo", "segunda"} -> 2
    [] word \in {"tres", "terceiro", "terceira"} -> 3
    [] word = "vinte" -> 20
    [] OTHER -> 0

\* the first position of a sequence of test results that is TRUE, 0 when none
FirstIndex(tests) ==
  IF \E i \in 1..Len(tests) : tests[i]
    THEN CHOOSE i \in 1..Len(tests) :
           tests[i] /\ \A j \in 1..(i - 1) : ~tests[j]
    ELSE 0

\* A mutant: the first group of digits that numbers a choice is taken.
FirstDigitsInRange(cleanTranscription, choices) ==
  LET InRange(word) == DigitValue(word) >= 1
                         /\ DigitValue(word) <= Len(choices)
      digitMatch == FirstIndex([i \in 1..Len(cleanTranscription) |->
                                InRange(cleanTranscription[i])])
  IN IF digitMatch = 0 THEN 0 ELSE DigitValue(cleanTranscription[digitMatch])

\* choice-matcher.service.ts:278-289 - the first group of digits, if it
\* numbers a choice; 0 when there is none or it is out of range
DigitMatch(cleanTranscription, choices) ==
  LET IsDigits(word) == DigitValue(word) # 0
      digitMatch == FirstIndex([i \in 1..Len(cleanTranscription) |->
                                IsDigits(cleanTranscription[i])])
      digit == IF digitMatch = 0 THEN 0
               ELSE DigitValue(cleanTranscription[digitMatch])
  IN IF digit >= 1 /\ digit <= Len(choices) THEN digit ELSE 0

\* choice-matcher.service.ts:291-302 - the first word that numberWords maps
\* to the number of a choice
SpokenNumberMatch(cleanTranscription, choices) ==
  LET Numbers(word) == numberWords(word) >= 1
                         /\ numberWords(word) <= Len(choices)
      spoken == FirstIndex([i \in 1..Len(cleanTranscription) |->
                            Numbers(cleanTranscription[i])])
  IN IF spoken # 0 THEN numberWords(cleanTranscription[spoken]) ELSE 0

\* choice-matcher.service.ts:274-305 - findNumericMatch: the first group of
\* digits if it numbers a choice, else the first number word that does
findNumericMatch(cleanTranscription, choices) ==
  IF DigitMatch(cleanTranscription, choices) # 0
    THEN DigitMatch(cleanTranscription, choices)
    ELSE SpokenNumberMatch(cleanTranscription, choices)

\* String.includes on cleaned texts: needle is a run of words of hay
Includes(hay, needle) ==
  \E i \in 0..(Len(hay) - Len(needle)) :
    \A j \in 1..Len(needle) : hay[i + j] = needle[j]

\* choice-matcher.service.ts:318 - the choice contains the transcription or
\* is contained in it
Contained(cleanTranscription, choice) ==
  \/ Includes(cleanTranscription, cleanText(choice.content))
  \/ Includes(cleanText(choice.content), cleanTranscription)

\* A mutant: of the choices that qualify, the last one is returned.
findLastExactMatch(cleanTranscription, choices) ==
  LET Qualifying == {i \in 1..Len(choices) :
                       Contained(cleanTranscription, choices[i])}
  IN IF Qualifying = {} THEN 0
     ELSE CHOOSE i \in Qualifying : \A j \in Qualifying : j <= i

\* choice-matcher.service.ts:310-328 - findExactMatch: the first choice that
\* contains the transcription or is contained in it
findExactMatch(cleanTranscription, choices) ==
  FirstIndex([i \in 1..Len(choices) |->
                Contained(cleanTranscription, choices[i])])

\* A mutant: containment is tried before the numbers.
matchContainmentFirst(transcription, choices, fuse) ==
  LET cleanTranscription == cleanText(transcription) IN
  IF transcription \in {"", " "} \/ Len(choices) = 0 THEN 0
  ELSE IF findExactMatch(cleanTranscription, choices) # 0
    THEN findExactMatch(cleanTranscription, choices)
  ELSE IF findNumericMatch(cleanTranscription, choices) # 0
    THEN findNumericMatch(cleanTranscription, choices)
  ELSE fuse

\* choice-matcher.service.ts:22-105 - matchTranscriptionToChoice: the number of
\* the matched choice, 0 for null.  fuse is the choice Fuse ranks first with
\* a confidence of 0.4 or more, 0 when it has none.
matchTranscriptionToChoice(transcription, choices, fuse) ==
  LET cleanTranscription == cleanText(transcription) IN
  IF transcription \in {"", " "} \/ Len(choices) = 0 THEN 0
  ELSE IF findNumericMatch(cleanTranscription, choices) # 0
    THEN findNumericMatch(cleanTranscription, choices)
  ELSE IF findExactMatch(cleanTranscription, choices) # 0
    THEN findExactMatch(cleanTranscription, choices)
  ELSE fuse

\* A mutant: a session id that is left out clears the stored one, as null does.
setActiveTypebotIdOrClear(u, typebotSlug, sessionId) ==
  [users EXCEPT ![u].activeTypebotSlug = typebotSlug,
                ![u].activeSessionId =
                   IF sessionId \in {SessionNull, SessionOmitted, NoSession}
                     THEN NoSession
                     ELSE sessionId]

\* session.service.ts:567-594 - setActiveTypebotId with a session id, with null,
\* or with the argument left out ("omitted")
setActiveTypebotId(u, typebotSlug, sessionId) ==
  [users EXCEPT ![u].activeTypebotSlug = typebotSlug,
                ![u].activeSessionId =
                   IF sessionId = SessionNull THEN NoSession
                   ELSE IF sessionId \in {SessionOmitted, NoSession} THEN @
                   ELSE sessionId]

\* A mutant: every failed continue is taken for an expired session.
AnyFailureIsSessionNotFound(error) == error # "ok"

\* message-processing.service.ts:1022-1025 - the failure class that restarts
IsSessionNotFound(error) == error = "Session not found"

\* message-processing.service.ts:955 - sessionId || activeSessionId
EffectiveSessionId(sessionId, activeSessionId) ==
  OrSession(sessionId, activeSessionId)

\* message-processing.service.ts:996-1002 - what continueChat is sent
MessagePayload(content, fileUrl) == IF fileUrl # NoFile THEN fileUrl ELSE content

\* typebot.service.ts:28,113 - a request to the dialogue collaborator
Request(op, origin, sid, flow, message) ==
  [op |-> op, origin |-> origin, sessionId |-> sid, flow |-> flow,
   message |-> message]

\* remote session ids are fresh: the one a startChat of invocation m returns
FreshSessionId(m, origin) == IF origin = "prestart" THEN 2 * m ELSE 2 * m + 1

\* the invocation has read or written the user's session id, ChoiceSet or
\* expected input type
Accessed(m) ==
  pm[m].pc \in {"voltarStart", "transcribe", "enhance", "interact", "decide",
               "continue", "expired", "start", "prestart", "respond"}

\* session.service.ts:251-267 - setActiveChoices, the in-memory part
setActiveChoices(u, sessionId, choices, stamp) ==
  [activeChoiceSessions EXCEPT
     ![u] = [present |-> TRUE, sessionId |-> sessionId, choices |-> choices,
             stamp |-> stamp]]

\* A mutant: clearing leaves the ChoiceSet where it is.
LeaveActiveChoices(u) == activeChoiceSessions

\* session.service.ts:349-353 - clearActiveChoices, the in-memory part
clearActiveChoices(u) == [activeChoiceSessions EXCEPT ![u] = NoChoiceSession]

\* A mutant: the user row is found or made before the waId is looked at.
processMessageCreatingUser(m, u, valid, in) ==
  /\ pm[m].pc = "idle"
  /\ users' = [users EXCEPT ![u].exists = TRUE]
  /\ IF ~valid
       THEN /\ pm' = [pm EXCEPT ![m] = [IdleMessage EXCEPT !.pc = "rejected",
                                                          !.waId = u]]
            /\ UNCHANGED concurrentWith
       ELSE /\ pm' = [pm EXCEPT ![m] =
                        [IdleMessage EXCEPT
                           !.pc = IF in = <<"text", "VOLTAR">> THEN "voltar"
                                                               ELSE "content",
                           !.waId = u, !.type = in[1], !.content = in[2],
                           !.finalContent = in[2],
                           !.sessionId = IF in[1] = "button"
                                           THEN users[u].activeSessionId
                                           ELSE NoSession]]
            /\ concurrentWith' = [concurrentWith EXCEPT ![m] = InFlight(u)]
  /\ UNCHANGED <<activeChoiceSessions, expectedInputTypes, startCalls, matchedOn>>

\* webhook.controller.ts:89-97,161-168,219-264, message-processing.service.ts:
\* 65-84,158, session.service.ts:138-182 - a message arrives and processMessage
\* is invoked on it, with no lock taken.  A button reply carries the session id
\* read when the webhook was handled.  A malformed waId is rejected before
\* processMessage; otherwise the user row is found or made.
processMessage(m, u, valid, in) ==
  /\ pm[m].pc = "idle"
  /\ IF ~valid
       THEN /\ pm' = [pm EXCEPT ![m] = [IdleMessage EXCEPT !.pc = "rejected",
                                                          !.waId = u]]
            /\ UNCHANGED <<users, concurrentWith>>
       ELSE /\ pm' = [pm EXCEPT ![m] =
                        [IdleMessage EXCEPT
                           !.pc = IF in = <<"text", "VOLTAR">> THEN "voltar"
                                                               ELSE "content",
                           !.waId = u, !.type = in[1], !.content = in[2],
                           !.finalContent = in[2],
                           !.sessionId = IF in[1] = "button"
                                           THEN users[u].activeSessionId
                                           ELSE NoSession]]
            /\ users' = [users EXCEPT ![u].exists = TRUE]
            /\ concurrentWith' = [concurrentWith EXCEPT ![m] = InFlight(u)]
  /\ UNCHANGED <<activeChoiceSessions, expectedInputTypes, startCalls, matchedOn>>

\* message-processing.service.ts:165-169 - VOLTAR: the flow is set back to the
\* default (session id argument left out), the ChoiceSet is cleared and
\* startChat is called on the default flow
voltarReset(m) ==
  LET u == pm[m].waId IN
  /\ pm[m].pc = "voltar"
  /\ users' = setActiveTypebotId(u, DefaultFlow, SessionOmitted)
  /\ activeChoiceSessions' = clearActiveChoices(u)
  /\ startCalls' = [startCalls EXCEPT ![m] = @ + 1]
  /\ pm' = [pm EXCEPT ![m].pc = "voltarStart",
                      ![m].request =
                         Request("start", "voltar", NoSession, DefaultFlow, "")]
  /\ UNCHANGED <<expectedInputTypes, matchedOn, concurrentWith>>

\* typebot.service.ts:20-98, message-processing.service.ts:169-188 - the
\* startChat of the reset returns; a failure ends the message, a success stores
\* the default flow with the new session and the response is sent on
voltarStartReturns(m, ok) ==
  LET u == pm[m].waId
      sid == FreshSessionId(m, "voltar")
  IN
  /\ pm[m].pc = "voltarStart"
  /\ IF ok
       THEN /\ users' = setActiveTypebotId(u, DefaultFlow, sid)
            /\ pm' = [pm EXCEPT ![m].pc = "respond", ![m].sessionId = sid,
                                ![m].request = NoRequest]
       ELSE /\ pm' = [pm EXCEPT ![m] = Returned(m, "done")]
            /\ UNCHANGED users
  /\ UNCHANGED <<activeChoiceSessions, expectedInputTypes, startCalls, matchedOn,
                 concurrentWith>>

\* message-processing.service.ts:468-494 - processNumericChoice
processNumericChoice(m) ==
  LET u == pm[m].waId
      session == activeChoiceSessions[u]
      n == SelectedChoice(pm[m].content, session.choices)
      hit == session.present /\ n # 0
  IN
  /\ activeChoiceSessions' = IF hit THEN clearActiveChoices(u)
                                    ELSE activeChoiceSessions
  /\ matchedOn' = IF hit THEN [matchedOn EXCEPT ![m] = session.stamp + 1]
                         ELSE matchedOn
  /\ pm' = [pm EXCEPT ![m].pc = "interact",
                      ![m].finalContent =
                         IF hit THEN session.choices[n].content ELSE @]

\* message-processing.service.ts:205-394 - the content step, up to its first
\* await: audio goes to upload or to transcription by the expected input type,
\* image goes to upload, text goes through processNumericChoice
processContent(m) ==
  LET u == pm[m].waId IN
  /\ pm[m].pc = "content"
  /\ CASE pm[m].type = "text" -> processNumericChoice(m)
       [] pm[m].type = "audio" ->
            /\ pm' = [pm EXCEPT ![m].pc =
                        IF expectedInputTypes[u] = "file input"
                          THEN "mediaSession" ELSE "transcribe"]
            /\ UNCHANGED <<activeChoiceSessions, matchedOn>>
       [] pm[m].type = "image" ->
            /\ pm' = [pm EXCEPT ![m].pc = "mediaSession"]
            /\ UNCHANGED <<activeChoiceSessions, matchedOn>>
       [] OTHER ->
            /\ pm' = [pm EXCEPT ![m].pc = "interact"]
            /\ UNCHANGED <<activeChoiceSessions, matchedOn>>
  /\ UNCHANGED <<users, expectedInputTypes, startCalls, concurrentWith>>

\* message-processing.service.ts:519-555 - download and transcription return;
\* on success the ChoiceSet is read and, if there is one, the matcher is awaited
transcribeAudio(m, text) ==
  LET u == pm[m].waId IN
  /\ pm[m].pc = "transcribe"
  /\ pm' = [pm EXCEPT ![m] =
              IF text = ""
                THEN Returned(m, "done")
                ELSE [@ EXCEPT !.finalContent = text,
                               !.activeChoices = activeChoiceSessions[u],
                               !.pc = IF activeChoiceSessions[u].present
                                        THEN "enhance" ELSE "interact"]]
  /\ UNCHANGED <<users, activeChoiceSessions, expectedInputTypes, startCalls,
                 matchedOn, concurrentWith>>

\* message-processing.service.ts:556-567 - the matcher has returned: on a match
\* the choice's content is sent instead and the ChoiceSet is cleared
enhanceTranscriptionWithChoiceMatch(m, fuse) ==
  LET u == pm[m].waId
      read == pm[m].activeChoices
      matched == matchTranscriptionToChoice(pm[m].finalContent, read.choices,
                                            fuse)
  IN
  /\ pm[m].pc = "enhance"
  /\ fuse <= Len(read.choices)
  /\ pm' = [pm EXCEPT ![m].pc = "interact",
                      ![m].activeChoices = NoChoiceSession,
                      ![m].finalContent =
                         IF matched # 0 THEN read.choices[matched].content
                                        ELSE @]
  /\ activeChoiceSessions' = IF matched # 0 THEN clearActiveChoices(u)
                                            ELSE activeChoiceSessions
  /\ matchedOn' = IF matched # 0 THEN [matchedOn EXCEPT ![m] = read.stamp + 1]
                                 ELSE matchedOn
  /\ UNCHANGED <<users, expectedInputTypes, startCalls, concurrentWith>>

\* message-processing.service.ts:224-246,289-311 - an upload needs a session:
\* with an active session id the file is uploaded to it, with none startChat is
\* called first, with no flow given
mediaSession(m, uploaded) ==
  LET u == pm[m].waId IN
  /\ pm[m].pc = "mediaSession"
  /\ IF users[u].activeSessionId # NoSession
       THEN /\ pm' = [pm EXCEPT ![m] =
                        IF uploaded THEN [@ EXCEPT !.pc = "interact",
                                                   !.fileUrl = FileUrl]
                                    ELSE Returned(m, "done")]
            /\ UNCHANGED startCalls
       ELSE /\ uploaded
            /\ startCalls' = [startCalls EXCEPT ![m] = @ + 1]
            /\ pm' = [pm EXCEPT ![m].pc = "prestart",
                                ![m].request = Request("start", "prestart",
                                                 NoSession, DefaultFlow, "")]
  /\ UNCHANGED <<users, activeChoiceSessions, expectedInputTypes, matchedOn,
                 concurrentWith>>

\* typebot.service.ts:20-98, message-processing.service.ts:246-268 - the
\* startChat made for an upload returns; on success the default flow and the
\* new session are stored, the file is uploaded and the message carries the
\* new session id
prestartReturns(m, ok, uploaded) ==
  LET u == pm[m].waId
      sid == FreshSessionId(m, "prestart")
  IN
  /\ pm[m].pc = "prestart"
  /\ IF ok
       THEN /\ users' = setActiveTypebotId(u, DefaultFlow, sid)
            /\ pm' = [pm EXCEPT ![m] =
                        IF uploaded THEN [@ EXCEPT !.pc = "interact",
                                                   !.fileUrl = FileUrl,
                                                   !.sessionId = sid,
                                                   !.request = NoRequest]
                                    ELSE Returned(m, "done")]
       ELSE /\ uploaded
            /\ pm' = [pm EXCEPT ![m] = Returned(m, "done")]
            /\ UNCHANGED users
  /\ UNCHANGED <<activeChoiceSessions, expectedInputTypes, startCalls, matchedOn,
                 concurrentWith>>

\* message-processing.service.ts:951 - interactWithTypebot reads the active flow
getActiveTypebotId(m) ==
  LET u == pm[m].waId IN
  /\ pm[m].pc = "interact"
  /\ pm' = [pm EXCEPT ![m].pc = "decide",
                      ![m].activeTypebotId = users[u].activeTypebotSlug]
  /\ UNCHANGED <<users, activeChoiceSessions, expectedInputTypes, startCalls,
                 matchedOn, concurrentWith>>

\* message-processing.service.ts:952-1019,1051-1060 - interactWithTypebot reads
\* the active session id and decides: continueChat on the effective session id
\* when there is one, startChat on the active flow (or the default) otherwise
interactWithTypebot(m) ==
  LET u == pm[m].waId
      effective == EffectiveSessionId(pm[m].sessionId, users[u].activeSessionId)
      flow == OrFlow(pm[m].activeTypebotId, DefaultFlow)
  IN
  /\ pm[m].pc = "decide"
  /\ IF effective # NoSession
       THEN /\ pm' = [pm EXCEPT
                        ![m].pc = "continue",
                        ![m].request =
                           Request("continue", "interact", effective, NoFlow,
                                   MessagePayload(pm[m].finalContent,
                                                  pm[m].fileUrl))]
            /\ UNCHANGED startCalls
       ELSE /\ pm' = [pm EXCEPT
                        ![m].pc = "start",
                        ![m].request = Request("start", "interact", NoSession,
                                               flow, pm[m].finalContent)]
            /\ startCalls' = [startCalls EXCEPT ![m] = @ + 1]
  /\ UNCHANGED <<users, activeChoiceSessions, expectedInputTypes, matchedOn,
                 concurrentWith>>

\* typebot.service.ts:104-141, message-processing.service.ts:1013-1050 -
\* continueChat returns: a response, "Session not found", or another failure,
\* which is handed back as an error result and fails the message
continueChat(m, error) ==
  /\ pm[m].pc = "continue"
  /\ pm' = [pm EXCEPT ![m] =
              IF error = "ok"
                THEN [@ EXCEPT !.pc = "respond",
                               !.sessionId = pm[m].request.sessionId,
                               !.request = NoRequest]
              ELSE IF IsSessionNotFound(error)
                THEN [@ EXCEPT !.pc = "expired", !.recovered = pm[m].request,
                               !.request = NoRequest, !.error = error]
                ELSE [Returned(m, "failed") EXCEPT !.error = error]]
  /\ UNCHANGED <<users, activeChoiceSessions, expectedInputTypes, startCalls,
                 matchedOn, concurrentWith>>

\* message-processing.service.ts:1034-1047 - the expired session id is cleared
\* (setActiveTypebotId with null) and startChat is called with the content
clearExpiredSession(m) ==
  LET u == pm[m].waId
      flow == OrFlow(pm[m].activeTypebotId, DefaultFlow)
  IN
  /\ pm[m].pc = "expired"
  /\ users' = setActiveTypebotId(u, flow, SessionNull)
  /\ startCalls' = [startCalls EXCEPT ![m] = @ + 1]
  /\ pm' = [pm EXCEPT ![m].pc = "start",
                      ![m].request = Request("start", "recovery", NoSession,
                                             flow, pm[m].finalContent)]
  /\ UNCHANGED <<activeChoiceSessions, expectedInputTypes, matchedOn,
                 concurrentWith>>

\* typebot.service.ts:20-98 - startChat returns: on success the flow and the
\* returned session id are stored for the user; a failure is an error result,
\* which fails the message
startChat(m, ok) ==
  LET u == pm[m].waId
      sid == FreshSessionId(m, pm[m].request.origin)
  IN
  /\ pm[m].pc = "start"
  /\ IF ok
       THEN /\ users' = setActiveTypebotId(u, pm[m].request.flow, sid)
            /\ pm' = [pm EXCEPT ![m].pc = "respond", ![m].sessionId = sid,
                                ![m].request = NoRequest,
                                ![m].recovered = NoRequest, ![m].error = ""]
       ELSE /\ pm' = [pm EXCEPT ![m] = Returned(m, "failed")]
            /\ UNCHANGED users
  /\ UNCHANGED <<activeChoiceSessions, expectedInputTypes, startCalls, matchedOn,
                 concurrentWith>>

\* typebot.service.ts:420-425 - what extractTypebotIdFromUrl looks at in a url:
\* whether new URL() accepts it, the pathname split at "/" (empty pieces
\* included), and the query parameters t, typebot and id ("" when absent)
Segments == {"typebots", "flows", "newflow", ""}
Paths == UNION {[1..n -> Segments] : n \in 0..MaxSegments}
NoParam == ""
MalformedUrl ==
  [parses |-> FALSE, path |-> <<>>, t |-> NoParam, typebot |-> NoParam,
   id |-> NoParam]
Urls ==
  [parses : {TRUE}, path : Paths, t : {NoParam, "by-t"},
   typebot : {NoParam, "by-typebot"}, id : {NoParam, "by-id"}]
  \cup {MalformedUrl}

\* typebot.service.ts:423-425 - .filter((segment) => segment.length > 0)
NonEmptySegments(path) == SelectSeq(path, LAMBDA segment : segment # "")

\* typebot.service.ts:438-441 - get("t") || get("typebot") || get("id")
QueryTypebotId(url) ==
  IF url.t # NoParam THEN url.t
  ELSE IF url.typebot # NoParam THEN url.typebot
  ELSE url.id

\* typebot.service.ts:418-452 - extractTypebotIdFromUrl; NoFlow stands for null
extractTypebotIdFromUrl(url) ==
  LET pathSegments == NonEmptySegments(url.path)
      typebotId == QueryTypebotId(url)
  IN
  IF ~url.parses THEN NoFlow
  ELSE IF Len(pathSegments) = 1 THEN pathSegments[1]
  ELSE IF Len(pathSegments) >= 2 /\ pathSegments[1] = "typebots"
    THEN pathSegments[2]
  ELSE IF typebotId # NoParam THEN typebotId
  ELSE NoFlow

\* the urls of the redirects in the responses of the pipeline: one that names
\* the other flow, one that names no flow the code can find
RedirectUrl(redirect) ==
  [parses |-> TRUE,
   path |-> IF redirect = "ok" THEN <<"typebots", OtherFlow>>
                               ELSE <<"flows", OtherFlow>>,
   t |-> NoParam, typebot |-> NoParam, id |-> NoParam]

\* typebot.service.ts:457-516 - handleTypebotRedirect: a url with no flow in it
\* or a failed updateTypebotInSession changes nothing; otherwise the target
\* flow is stored together with the response's session id
handleTypebotRedirect(u, redirect, sessionId, updated) ==
  LET slug == extractTypebotIdFromUrl(RedirectUrl(redirect)) IN
  IF redirect # "none" /\ slug # NoFlow /\ updated
    THEN setActiveTypebotId(u, slug, sessionId)
    ELSE users

\* no response sent on by the invocation
NotHandled == [input |-> "not handled", redirect |-> "not handled", sent |-> FALSE]

\* typebot.service.ts:470-496 - how handleTypebotRedirect ends for a response
RedirectOutcome(redirect, updated) ==
  IF redirect = "none" THEN "none"
  ELSE IF extractTypebotIdFromUrl(RedirectUrl(redirect)) = NoFlow
    THEN "unresolvable"
  ELSE IF ~updated THEN "update failed"
  ELSE "applied"

\* A mutant: a redirect that fails ends sendTypebotResponse.
StopsOnFailedRedirect(outcome) == outcome \in {"none", "applied"}

\* message-processing.service.ts:1113-1124 - a failed redirect is logged and
\* sendTypebotResponse goes on
ProcessingContinues(outcome) == TRUE

\* A mutant: the choices of an earlier response are kept.
KeepActiveChoices(u, sessionId, choices, stamp) ==
  IF activeChoiceSessions[u].present
    THEN activeChoiceSessions
    ELSE [activeChoiceSessions EXCEPT
            ![u] = [present |-> TRUE, sessionId |-> sessionId,
                    choices |-> choices, stamp |-> stamp]]

\* message-processing.service.ts:1196-1216 - handleTypebotInput: the choices
\* of a choice input become the user's active choices
handleTypebotInput(u, sessionId, choices, stamp) ==
  setActiveChoices(u, sessionId, choices, stamp)

\* message-processing.service.ts:1078-1234 - sendTypebotResponse on the response
\* of the start or continue that succeeded: the redirect is handled, the
\* messages are sent, a choice input sets the ChoiceSet and any input sets the
\* expected input type
sendTypebotResponse(m, response, updated) ==
  LET u == pm[m].waId
      sessionId == pm[m].sessionId
      outcome == RedirectOutcome(response.redirect, updated)
      continues == ProcessingContinues(outcome)
  IN
  /\ pm[m].pc = "respond"
  /\ updated \/ response.redirect = "ok"
  /\ users' = handleTypebotRedirect(u, response.redirect, sessionId, updated)
  /\ activeChoiceSessions' =
       IF continues /\ response.input = "choice input"
         THEN handleTypebotInput(u, sessionId, ChoiceList, m)
         ELSE activeChoiceSessions
  /\ expectedInputTypes' =
       IF continues /\ response.input # NoInput
         THEN [expectedInputTypes EXCEPT ![u] = response.input]
         ELSE expectedInputTypes
  /\ handled' = [handled EXCEPT ![m] = [input |-> response.input,
                                        redirect |-> outcome,
                                        sent |-> continues]]
  /\ pm' = [pm EXCEPT ![m] = Returned(m, "done")]
  /\ UNCHANGED <<startCalls, matchedOn, concurrentWith>>

\* The states a user can be in when a message arrives: unknown to the system,
\* or left by earlier turns with a stored flow, a stored session (1) or none,
\* and the ChoiceSet and expected input type of the last response.
PriorUserStates ==
  {<<[exists |-> FALSE, activeTypebotSlug |-> NoFlow,
      activeSessionId |-> NoSession], NoChoiceSession, NoInput>>}
  \cup
  { <<[exists |-> TRUE, activeTypebotSlug |-> row[1], activeSessionId |-> row[2]],
      held[1], held[2]>> :
      row \in {<<DefaultFlow, 1>>, <<OtherFlow, 1>>, <<OtherFlow, NoSession>>},
      held \in {<<NoChoiceSession, NoInput>>,
                <<[present |-> TRUE, sessionId |-> 1, choices |-> ChoiceList,
                   stamp |-> 0], "choice input">>,
                <<NoChoiceSession, "text input">>,
                <<NoChoiceSession, "file input">>} }

\* session.service.ts:25,309,423 - the TTL of an entry, in minutes
SessionTtlMinutes == 30
\* session.service.ts:105 - the age beyond which the sweep removes an entry
SweepAgeMinutes == 5
\* session.service.ts:131 - the period of the sweep
SweepIntervalMinutes == 5

\* no call made on the caches yet
NoCall ==
  [op |-> "none", waId |-> 0, found |-> FALSE, null |-> TRUE, choices |-> <<>>,
   inputType |-> NoInput, dbFailed |-> FALSE, threw |-> FALSE, again |-> FALSE]

\* no row of the user in a table
NoRow == [present |-> FALSE, value |-> <<>>, createdAt |-> 0, expiresAt |-> 0]

\* the clock, the timestamps and the tables at rest, for the other
\* specifications
CacheQuiet ==
  /\ now = 0
  /\ nextSweep = SweepIntervalMinutes
  /\ choiceTimestamp = [u \in Users |-> 0]
  /\ inputTimestamp = [u \in Users |-> 0]
  /\ choiceStored = [u \in Users |-> <<>>]
  /\ inputStored = [u \in Users |-> NoInput]
  /\ activeChoiceRows = [u \in Users |-> NoRow]
  /\ expectedInputTypeRows = [u \in Users |-> NoRow]
  /\ lastCall = NoCall

\* no write to the store outstanding
WritesQuiet ==
  /\ inFlight = [u \in Users |-> <<>>]
  /\ writeFailed = [u \in Users |-> FALSE]

\* null in the lastRejectionNotifiedAt column
Never == -1

\* a processMessage that has not been called
IdleRejection == [pc |-> "idle", waId |-> 0, lastNotified |-> Never, at |-> 0]

\* no message of a user who is not whitelisted
WhitelistQuiet ==
  /\ lastRejectionNotifiedAt = [u \in Users |-> Never]
  /\ wl = [m \in Msgs |-> IdleRejection]
  /\ rejectionsSent = [u \in Users |-> <<>>]

\* a startChat or continueChat that has not been called
IdleCall ==
  [op |-> "none", status |-> "idle", outerAttempt |-> 0, innerAttempt |-> 0,
   requests |-> 0]

\* no dialogue call counted
ApiQuiet == api = [m \in Msgs |-> IdleCall]

\* no call made from inside an operation
NestQuiet == nestedIn = [c \in Callers |-> NoLock]

SideQuiet == WritesQuiet /\ WhitelistQuiet /\ ApiQuiet /\ NestQuiet

\* no message in the pipeline, no user known
NoMessages ==
  /\ users = [u \in Users |-> [exists |-> FALSE, activeTypebotSlug |-> NoFlow,
                               activeSessionId |-> NoSession]]
  /\ pm = [m \in Msgs |-> IdleMessage]
  /\ startCalls = [m \in Msgs |-> 0]
  /\ matchedOn = [m \in Msgs |-> 0]
  /\ concurrentWith = [m \in Msgs |-> {}]
  /\ handled = [m \in Msgs |-> NotHandled]

\* choice-matcher.service.ts:81 - the scores Fuse gives its best result, in
\* tenths: 0 is a perfect match
FuseScores == {0, 6, 7}

\* A mutant: the best result of Fuse is returned whatever its confidence.
AcceptedAlways(confidence) == TRUE

\* choice-matcher.service.ts:92 - matchResult.score >= 0.4, in tenths
Accepted(confidence) == confidence >= 4

\* matchTranscriptionToChoice not called
NotMatched == [ran |-> FALSE, index |-> 0, score |-> 0, matchType |-> "none"]

\* choice-matcher.service.ts:22-105 - the ChoiceMatchResult of
\* matchTranscriptionToChoice: the number of the choice whose id and content
\* it carries (0 for null), its score in tenths and the matchType that is
\* logged.  fuseIndex is the choice Fuse ranks first, 0 when it finds none,
\* fuseScore the score it gives it.
ChoiceMatch(transcription, choices, fuseIndex, fuseScore) ==
  LET cleanTranscription == cleanText(transcription)
      confidence == 10 - fuseScore
      fuzzy == IF fuseIndex # 0 /\ Accepted(confidence) THEN fuseIndex ELSE 0
      index == matchTranscriptionToChoice(transcription, choices, fuzzy)
      matchType ==
        IF transcription \in {"", " "} \/ Len(choices) = 0 \/ index = 0
          THEN "none"
        ELSE IF findNumericMatch(cleanTranscription, choices) # 0 THEN "numeric"
        ELSE IF findExactMatch(cleanTranscription, choices) # 0 THEN "exact"
        ELSE "fuzzy"
  IN [ran |-> TRUE, index |-> index,
      score |-> IF index = 0 THEN 0
                ELSE IF matchType = "fuzzy" THEN confidence ELSE 10,
      matchType |-> matchType]

\* no call of matchTranscriptionToChoice in progress
MatchQuiet == heard = "" /\ offered = <<>> /\ matchResult = NotMatched

\* extractTypebotIdFromUrl not called
NotRun == "not run"

\* setActiveTypebotId not called
NoSetCall ==
  [waId |-> 0, typebotSlug |-> NoFlow, sessionId |-> SessionOmitted,
   success |-> FALSE]
FnQuiet ==
  /\ redirectUrl = MalformedUrl
  /\ newTypebotSlug = NotRun
  /\ utterance = ""
  /\ typedContent = NotRun
  /\ spokenContent = NotRun
  /\ setCall = NoSetCall
  /\ MatchQuiet

PipeInit ==
  /\ LockIdle
  /\ SideQuiet
  /\ FnQuiet
  /\ CacheQuiet
  /\ \E prior \in [Users -> PriorUserStates] :
       /\ users = [u \in Users |-> prior[u][1]]
       /\ activeChoiceSessions = [u \in Users |-> prior[u][2]]
       /\ expectedInputTypes = [u \in Users |-> prior[u][3]]
  /\ pm = [m \in Msgs |-> IdleMessage]
  /\ startCalls = [m \in Msgs |-> 0]
  /\ matchedOn = [m \in Msgs |-> 0]
  /\ concurrentWith = [m \in Msgs |-> {}]
  /\ handled = [m \in Msgs |-> NotHandled]

PipeNext ==
  \/ \E m \in Msgs, u \in Users, valid \in BOOLEAN, in \in Inbound :
        processMessage(m, u, valid, in) /\ UNCHANGED notReceiveVars
  \/ \E m \in Msgs : voltarReset(m) /\ UNCHANGED notReceiveVars
  \/ \E m \in Msgs, ok \in BOOLEAN : voltarStartReturns(m, ok) /\ UNCHANGED notReceiveVars
  \/ \E m \in Msgs : processContent(m) /\ UNCHANGED notReceiveVars
  \/ \E m \in Msgs, text \in Transcripts \cup {""} :
        transcribeAudio(m, text) /\ UNCHANGED notReceiveVars
  \/ \E m \in Msgs, fuse \in 0..Len(ChoiceList) :
        enhanceTranscriptionWithChoiceMatch(m, fuse) /\ UNCHANGED notReceiveVars
  \/ \E m \in Msgs, uploaded \in BOOLEAN :
        mediaSession(m, uploaded) /\ UNCHANGED notReceiveVars
  \/ \E m \in Msgs, ok \in BOOLEAN, uploaded \in BOOLEAN :
        prestartReturns(m, ok, uploaded) /\ UNCHANGED notReceiveVars
  \/ \E m \in Msgs : getActiveTypebotId(m) /\ UNCHANGED notReceiveVars
  \/ \E m \in Msgs : interactWithTypebot(m) /\ UNCHANGED notReceiveVars
  \/ \E m \in Msgs, error \in {"ok", "Session not found", "Typebot API error"} :
        continueChat(m, error) /\ UNCHANGED notReceiveVars
  \/ \E m \in Msgs : clearExpiredSession(m) /\ UNCHANGED notReceiveVars
  \/ \E m \in Msgs, ok \in BOOLEAN : startChat(m, ok) /\ UNCHANGED notReceiveVars
  \/ \E m \in Msgs, response \in Responses, updated \in BOOLEAN :
        sendTypebotResponse(m, response, updated) /\ UNCHANGED notPipeVars

PipeSpec == PipeInit /\ [][PipeNext]_vars

LockNext ==
  \/ \E c \in Callers, k \in Keys : withUserLock(c, k) /\ UNCHANGED notLockVars
  \/ \E c \in Callers : AwaitExistingLock(c) /\ UNCHANGED notLockVars
  \/ \E c \in Callers, r \in {"ok", "err"} :
        OperationSettles(c, r) /\ UNCHANGED notLockVars
  \/ \E c \in Callers : ReleaseLock(c) /\ UNCHANGED notLockVars

\* the pipeline at rest, for the specifications of the lock alone
PipeQuiet ==
  /\ NoMessages
  /\ activeChoiceSessions = [u \in Users |-> NoChoiceSession]
  /\ expectedInputTypes = [u \in Users |-> NoInput]

LockInit == LockIdle /\ PipeQuiet /\ FnQuiet /\ CacheQuiet /\ SideQuiet

LockSpec == LockInit /\ [][LockNext]_vars

\* Every continuation that is ready is eventually run by the event loop, and
\* every operation handed to the lock terminates.
LockFairSpec ==
  /\ LockSpec
  /\ \A c \in Callers :
       /\ WF_vars(AwaitExistingLock(c) /\ UNCHANGED notLockVars)
       /\ WF_vars((\E r \in {"ok", "err"} : OperationSettles(c, r))
                     /\ UNCHANGED notLockVars)
       /\ WF_vars(ReleaseLock(c) /\ UNCHANGED notLockVars)

(***************************************************************************)
(* Claims about the per-user lock.                                         *)
(***************************************************************************)

\* C1 (as claimed): on every key at most one operation handed to withUserLock
\* is executing at any time, however many calls are waiting.
C1_MutualExclusion ==
  \A k \in Keys : Cardinality(Operating(k)) <= 1

\* C3: a call that found another call's lock starts its operation only after
\* that call has run its finally block; and when two calls in all were made on
\* a key, the second, dispatched while the first's operation was running, starts
\* its operation only after the first's has settled (fulfilled or rejected).
C3_SecondStartsAfterFirstSettled ==
  \A c \in Callers :
    lpc[c] = "operating" =>
      /\ existingLock[c] # NoLock => lpc[existingLock[c]] = "done"
      /\ Cardinality(Dispatched(waId[c])) = 2 =>
           \A d \in sawRunning[c] : lpc[d] \in {"settled", "done"}

\* C3 witness: of two calls on a key the second was dispatched while the first
\* was running, the first threw, and the second is now running its operation.
C3_Witness ==
  \E c, d \in Callers :
    /\ Cardinality(Dispatched(waId[c])) = 2
    /\ d \in sawRunning[c]
    /\ lpc[c] = "operating"
    /\ opOutcome[d] = "err"

\* C4: once a call has returned, its caller got the operation's own outcome
\* (a rejection is rethrown), the operation was invoked exactly once, the
\* call's lock promise is resolved and the map no longer holds it.
C4_ErrorPropagatesAndLockIsReleased ==
  \A c \in Callers :
    lpc[c] = "done" =>
      /\ callResult[c] = (IF opOutcome[c] = "ok" THEN "returned" ELSE "threw")
      /\ opRuns[c] = 1
      /\ c \in resolved
      /\ userLocks[waId[c]] # c

\* C4 witness: a call whose operation threw has returned, and a call that was
\* waiting on its lock has gone on to run its own operation.
C4_Witness ==
  \E c, d \in Callers :
    /\ lpc[c] = "done" /\ callResult[c] = "threw"
    /\ existingLock[d] = c
    /\ lpc[d] \in {"operating", "settled", "done"}

\* C5: a call only ever waits on a lock made by a call on its own key.
C5_DifferentKeysNeverBlock ==
  \A c \in Callers :
    lpc[c] = "awaiting" =>
      /\ existingLock[c] # NoLock
      /\ waId[existingLock[c]] = waId[c]

\* C5 witness: one key has a running operation and a queued call, while a call
\* on another key runs its operation without having waited.
C5_Witness ==
  \E c, d, e \in Callers :
    /\ lpc[c] = "operating" /\ lpc[e] = "awaiting" /\ existingLock[e] = c
    /\ lpc[d] = "operating" /\ waId[d] # waId[c] /\ existingLock[d] = NoLock

\* C6: every call that was made eventually returns to its caller.
C6_EveryCallEventuallyReturns ==
  \A c \in Callers : (lpc[c] # "idle") ~> (lpc[c] = "done")

\* C6 witness: two calls waited on the same lock and both have returned.
C6_Witness ==
  \E c, d \in Callers :
    /\ c # d
    /\ existingLock[c] # NoLock /\ existingLock[c] = existingLock[d]
    /\ lpc[c] = "done" /\ lpc[d] = "done"

(***************************************************************************)
(* The pure functions of the pipeline, each applied to inputs drawn from   *)
(* bounded sets.                                                           *)
(***************************************************************************)
FnInit ==
  /\ LockIdle
  /\ SideQuiet
  /\ PipeQuiet
  /\ CacheQuiet
  /\ redirectUrl \in Urls
  /\ newTypebotSlug = NotRun
  /\ utterance \in Texts
  /\ typedContent = NotRun
  /\ spokenContent = NotRun
  /\ setCall = NoSetCall
  /\ MatchQuiet

\* typebot.service.ts:470 - const newTypebotSlug = extractTypebotIdFromUrl(url)
ExtractTypebotId ==
  /\ newTypebotSlug = NotRun
  /\ newTypebotSlug' = extractTypebotIdFromUrl(redirectUrl)
  /\ UNCHANGED <<redirectUrl, utterance, typedContent, spokenContent, setCall,
                 matchVars>>

\* message-processing.service.ts:383-394,468-494 - the text is typed while
\* ChoiceList is the user's ChoiceSet: what processNumericChoice returns
ResolveTyped ==
  LET n == SelectedChoice(utterance, ChoiceList) IN
  /\ typedContent = NotRun
  /\ typedContent' = IF n # 0 THEN ChoiceList[n].content ELSE utterance
  /\ UNCHANGED <<redirectUrl, newTypebotSlug, utterance, spokenContent, setCall,
                 matchVars>>

\* message-processing.service.ts:551-567 - the text is the transcription of an
\* audio while ChoiceList is the user's ChoiceSet: finalContent
ResolveSpoken(fuse) ==
  LET matched == matchTranscriptionToChoice(utterance, ChoiceList, fuse) IN
  /\ spokenContent = NotRun
  /\ spokenContent' = IF matched # 0 THEN ChoiceList[matched].content
                                     ELSE utterance
  /\ UNCHANGED <<redirectUrl, newTypebotSlug, utterance, typedContent, setCall,
                 matchVars>>

FnNext ==
  \/ ExtractTypebotId /\ UNCHANGED notFnVars
  \/ ResolveTyped /\ UNCHANGED notFnVars
  \/ \E fuse \in 0..Len(ChoiceList) : ResolveSpoken(fuse) /\ UNCHANGED notFnVars

FnSpec == FnInit /\ [][FnNext]_vars

(***************************************************************************)
(* matchTranscriptionToChoice on transcriptions and lists of choices.      *)
(***************************************************************************)

\* the length of a long list of choices
LongListLen == 21

\* three choices
ThreeChoices == Append(ChoiceList, [id |-> "c", content |-> "Talvez"])

\* a long list of choices; no transcription of the model is close to their
\* labels, only their number matters
LongChoiceList == [i \in 1..LongListLen |-> [id |-> "n", content |-> "item"]]

\* the lists of choices handed to the matcher
ChoiceLists == {<<>>, ChoiceList, ThreeChoices, LongChoiceList}

\* the transcriptions handed to the matcher
Transcriptions ==
  Texts \cup {"2", "3 1", "dois 1", "segundo", "tres", "tr^es",
              "vinte e um", "nao sim", "sim dois", "sim 2", "hmm", "..."}

MatchInit ==
  /\ LockIdle
  /\ SideQuiet
  /\ PipeQuiet
  /\ CacheQuiet
  /\ redirectUrl = MalformedUrl
  /\ newTypebotSlug = NotRun
  /\ utterance = ""
  /\ typedContent = NotRun
  /\ spokenContent = NotRun
  /\ setCall = NoSetCall
  /\ heard \in Transcriptions
  /\ offered \in ChoiceLists
  /\ matchResult = NotMatched

\* choice-matcher.service.ts:22-105 - matchTranscriptionToChoice is called
Match(fuseIndex, fuseScore) ==
  /\ ~matchResult.ran
  /\ matchResult' = ChoiceMatch(heard, offered, fuseIndex, fuseScore)
  /\ UNCHANGED <<heard, offered>>

MatchNext ==
  \E fuseIndex \in 0..Len(offered), fuseScore \in FuseScores :
    Match(fuseIndex, fuseScore) /\ UNCHANGED notMatchVars

MatchSpec == MatchInit /\ [][MatchNext]_vars

(***************************************************************************)
(* setActiveTypebotId on the row of a user.                                *)
(***************************************************************************)

\* the session ids startChat hands out
SessionIds == {FreshSessionId(m, origin) : m \in Msgs,
                                           origin \in {"prestart", "start"}}

\* session.service.ts:571 - sessionId?: string | null - an id, the empty
\* string, null, or nothing
SessionIdArguments == SessionIds \cup {NoSession, SessionNull, SessionOmitted}

UserInit ==
  /\ LockIdle
  /\ SideQuiet
  /\ FnQuiet
  /\ CacheQuiet
  /\ activeChoiceSessions = [u \in Users |-> NoChoiceSession]
  /\ expectedInputTypes = [u \in Users |-> NoInput]
  /\ pm = [m \in Msgs |-> IdleMessage]
  /\ startCalls = [m \in Msgs |-> 0]
  /\ matchedOn = [m \in Msgs |-> 0]
  /\ concurrentWith = [m \in Msgs |-> {}]
  /\ handled = [m \in Msgs |-> NotHandled]
  /\ users \in [Users -> [exists : {TRUE},
                          activeTypebotSlug : {NoFlow, DefaultFlow, OtherFlow},
                          activeSessionId : SessionIds \cup {NoSession}]]

\* session.service.ts:567-594 - setActiveTypebotId: when prisma.user.update
\* rejects, withServiceResponse returns a failure and the row is as before
SetActiveTypebotId(u, typebotSlug, sessionId, updateFailed) ==
  /\ users' = IF updateFailed THEN users
              ELSE setActiveTypebotId(u, typebotSlug, sessionId)
  /\ setCall' = [waId |-> u, typebotSlug |-> typebotSlug,
                 sessionId |-> sessionId, success |-> ~updateFailed]

UserNext ==
  \E u \in Users, typebotSlug \in {DefaultFlow, OtherFlow},
     sessionId \in SessionIdArguments, updateFailed \in BOOLEAN :
    SetActiveTypebotId(u, typebotSlug, sessionId, updateFailed)
      /\ UNCHANGED notUserVars

UserSpec == UserInit /\ [][UserNext]_vars

(***************************************************************************)
(* The two in-memory caches of session.service.ts under the clock: the     *)
(* getters with their TTL, the setters, and the periodic sweep.            *)
(***************************************************************************)

\* how long before the process started a row was created, or last written
PersistedAges == {3, SessionTtlMinutes, SessionTtlMinutes + 1}

\* part_011:57-72, session.service.ts:271-288 - the rows an earlier run of the
\* process can have left for a value: created by the first upsert, its
\* expiresAt set by the last one
PersistedRows(value) ==
  {NoRow} \cup
  {[present |-> TRUE, value |-> value, createdAt |-> 0 - created,
    expiresAt |-> SessionTtlMinutes - written] :
     <<created, written>> \in
       {ages \in PersistedAges \X PersistedAges : ages[2] <= ages[1]}}

\* session.service.ts:36,50 - where: { expiresAt: { gt: now } }
Loaded(row) == row.present /\ row.expiresAt > now

\* session.service.ts:39-46 - the ChoiceSet entries loadPersistedState builds
LoadedChoiceSessions(rows) ==
  [u \in Users |-> IF Loaded(rows[u])
                     THEN [present |-> TRUE, sessionId |-> 1,
                           choices |-> rows[u].value, stamp |-> 0]
                     ELSE NoChoiceSession]

\* session.service.ts:53-58 - the input entries loadPersistedState builds
LoadedInputTypes(rows) ==
  [u \in Users |-> IF Loaded(rows[u]) THEN rows[u].value ELSE NoInput]

\* session.service.ts:43,56 - timestamp: createdAt
LoadedTimestamps(rows) ==
  [u \in Users |-> IF Loaded(rows[u]) THEN rows[u].createdAt ELSE 0]

\* session.service.ts:30-67 - loadPersistedState: both maps are filled from
\* the rows that have not expired; a failure is logged and leaves them empty
loadPersistedState(failed) ==
  LET choiceRows == IF failed THEN [u \in Users |-> NoRow] ELSE activeChoiceRows
      inputRows == IF failed THEN [u \in Users |-> NoRow]
                   ELSE expectedInputTypeRows
  IN
  /\ activeChoiceSessions' = LoadedChoiceSessions(choiceRows)
  /\ choiceTimestamp' = LoadedTimestamps(choiceRows)
  /\ choiceStored' = [u \in Users |-> LoadedChoiceSessions(choiceRows)[u].choices]
  /\ expectedInputTypes' = LoadedInputTypes(inputRows)
  /\ inputTimestamp' = LoadedTimestamps(inputRows)
  /\ inputStored' = LoadedInputTypes(inputRows)

CacheInit ==
  /\ LockIdle
  /\ SideQuiet
  /\ FnQuiet
  /\ NoMessages
  /\ now = 0
  /\ nextSweep = SweepIntervalMinutes
  /\ lastCall = NoCall
  /\ activeChoiceRows \in [Users -> PersistedRows(ChoiceList)]
  /\ expectedInputTypeRows \in [Users -> PersistedRows("text input")]
  /\ activeChoiceSessions = LoadedChoiceSessions(activeChoiceRows)
  /\ choiceTimestamp = LoadedTimestamps(activeChoiceRows)
  /\ choiceStored = [u \in Users |-> activeChoiceSessions[u].choices]
  /\ expectedInputTypes = LoadedInputTypes(expectedInputTypeRows)
  /\ inputTimestamp = LoadedTimestamps(expectedInputTypeRows)
  /\ inputStored = expectedInputTypes

\* a call op for user u; again tells that a clear repeats the call before it
Called(op, u) ==
  [NoCall EXCEPT !.op = op, !.waId = u,
                 !.again = /\ op = "clearActiveChoices"
                           /\ lastCall.op = op
                           /\ lastCall.waId = u]

\* time passes; the sweep runs when it is due
Tick ==
  /\ now < MaxTime
  /\ now < nextSweep
  /\ now' = now + ClockStep
  /\ lastCall' = Called("tick", 0)
  /\ UNCHANGED <<nextSweep, choiceTimestamp, inputTimestamp, choiceStored,
                 inputStored, activeChoiceSessions, expectedInputTypes,
                 activeChoiceRows, expectedInputTypeRows>>

\* the process is restarted: the maps are lost, initializeSessionManagement
\* (session.service.ts:98-132) loads them again and sets up a new sweep
Restart(loadFailed) ==
  /\ loadPersistedState(loadFailed)
  /\ nextSweep' = now + SweepIntervalMinutes
  /\ lastCall' = [Called("loadPersistedState", 0) EXCEPT !.dbFailed = loadFailed]
  /\ UNCHANGED <<now, activeChoiceRows, expectedInputTypeRows>>

\* session.service.ts:309-310,423-424 - timestamp < thirtyMinutesAgo
Expired(timestamp) == timestamp < now - SessionTtlMinutes

\* session.service.ts:301-318 - what getActiveChoices returns, <<>> for null
getActiveChoices(u) ==
  IF activeChoiceSessions[u].present /\ ~Expired(choiceTimestamp[u])
    THEN activeChoiceSessions[u].choices
    ELSE <<>>

\* session.service.ts:413-433 - what getExpectedInputType returns
getExpectedInputType(u) ==
  IF expectedInputTypes[u] # NoInput /\ ~Expired(inputTimestamp[u])
    THEN expectedInputTypes[u]
    ELSE NoInput

\* session.service.ts:301-318 - getActiveChoices
GetActiveChoices(u) ==
  LET session == activeChoiceSessions[u] IN
  /\ IF ~session.present
       THEN /\ lastCall' = Called("getActiveChoices", u)
            /\ UNCHANGED <<activeChoiceSessions, choiceStored>>
       ELSE IF Expired(choiceTimestamp[u])
         THEN /\ activeChoiceSessions' = clearActiveChoices(u)
              /\ choiceStored' = [choiceStored EXCEPT ![u] = <<>>]
              /\ lastCall' = [Called("getActiveChoices", u) EXCEPT
                                !.found = TRUE]
         ELSE /\ lastCall' = [Called("getActiveChoices", u) EXCEPT
                                !.found = TRUE, !.null = FALSE,
                                !.choices = session.choices]
              /\ UNCHANGED <<activeChoiceSessions, choiceStored>>
  /\ UNCHANGED <<now, nextSweep, choiceTimestamp, inputTimestamp,
                 expectedInputTypes, inputStored, activeChoiceRows,
                 expectedInputTypeRows>>

\* session.service.ts:413-433 - getExpectedInputType
GetExpectedInputType(u) ==
  LET entry == expectedInputTypes[u] IN
  /\ IF entry = NoInput
       THEN /\ lastCall' = Called("getExpectedInputType", u)
            /\ UNCHANGED <<expectedInputTypes, inputStored>>
       ELSE IF Expired(inputTimestamp[u])
         THEN /\ expectedInputTypes' = [expectedInputTypes EXCEPT ![u] = NoInput]
              /\ inputStored' = [inputStored EXCEPT ![u] = NoInput]
              /\ lastCall' = [Called("getExpectedInputType", u) EXCEPT
                                !.found = TRUE]
         ELSE /\ lastCall' = [Called("getExpectedInputType", u) EXCEPT
                                !.found = TRUE, !.null = FALSE,
                                !.inputType = entry]
              /\ UNCHANGED <<expectedInputTypes, inputStored>>
  /\ UNCHANGED <<now, nextSweep, choiceTimestamp, inputTimestamp,
                 activeChoiceSessions, choiceStored, activeChoiceRows,
                 expectedInputTypeRows>>

\* the ChoiceSet a caller stores, another one than the rows of an earlier
\* run hold
StoredChoices == {SubSeq(ChoiceList, 1, 1)}

\* the input type a caller stores, another one than the rows of an earlier
\* run hold
StoredInputTypes == {"choice input"}

\* session.service.ts:273-288,390-401 - prisma upsert where: { waId }: update
\* writes the value and expiresAt of the row, create makes a row that is
\* created now
upsert(rows, u, value) ==
  [rows EXCEPT ![u] = [present |-> TRUE, value |-> value,
                       createdAt |-> IF @.present THEN @.createdAt ELSE now,
                       expiresAt |-> now + SessionTtlMinutes]]

\* A mutant: the map is written only once the row is.
MemoryUpdatedAfterTheRow(dbFailed) == ~dbFailed

\* session.service.ts:266-270,380-387 - the map is set before the upsert is
\* tried
MemoryUpdated(dbFailed) == TRUE

\* session.service.ts:289-291,402-404 - the catch of the upsert logs and does
\* not throw
SetThrows(dbFailed) == FALSE

\* session.service.ts:251-296 - setActiveChoices: the entry is replaced, its
\* timestamp is now, and the row is upserted unless the store fails
SetActiveChoices(u, choices, dbFailed) ==
  /\ IF MemoryUpdated(dbFailed)
       THEN /\ activeChoiceSessions' = setActiveChoices(u, 1, choices, 0)
            /\ choiceTimestamp' = [choiceTimestamp EXCEPT ![u] = now]
       ELSE UNCHANGED <<activeChoiceSessions, choiceTimestamp>>
  /\ choiceStored' = [choiceStored EXCEPT ![u] = choices]
  /\ activeChoiceRows' = IF dbFailed THEN activeChoiceRows
                         ELSE upsert(activeChoiceRows, u, choices)
  /\ lastCall' = [Called("setActiveChoices", u) EXCEPT
                    !.dbFailed = dbFailed,
                    !.threw = SetThrows(dbFailed)]
  /\ UNCHANGED <<now, nextSweep, inputTimestamp, expectedInputTypes,
                 inputStored, expectedInputTypeRows>>

\* session.service.ts:377-408 - setExpectedInputType
SetExpectedInputType(u, inputType, dbFailed) ==
  /\ IF MemoryUpdated(dbFailed)
       THEN /\ expectedInputTypes' = [expectedInputTypes EXCEPT ![u] = inputType]
            /\ inputTimestamp' = [inputTimestamp EXCEPT ![u] = now]
       ELSE UNCHANGED <<expectedInputTypes, inputTimestamp>>
  /\ inputStored' = [inputStored EXCEPT ![u] = inputType]
  /\ expectedInputTypeRows' = IF dbFailed THEN expectedInputTypeRows
                              ELSE upsert(expectedInputTypeRows, u, inputType)
  /\ lastCall' = [Called("setExpectedInputType", u) EXCEPT
                    !.dbFailed = dbFailed,
                    !.threw = SetThrows(dbFailed)]
  /\ UNCHANGED <<now, nextSweep, choiceTimestamp, activeChoiceSessions,
                 choiceStored, activeChoiceRows>>

\* session.service.ts:358-359,447-448 - prisma delete where: { waId } rejects
\* when the store fails and when there is no row
DeleteFails(rows, u, storeFailed) == storeFailed \/ ~rows[u].present

\* A mutant: the rejection of a delete that finds no row reaches the caller.
ClearThrowsWhenNoRow(deleteFailed, storeFailed) == deleteFailed /\ ~storeFailed

\* session.service.ts:357-365,446-454 - the .catch and the catch around the
\* delete take every rejection
ClearThrows(deleteFailed, storeFailed) == FALSE

\* session.service.ts:349-372 - clearActiveChoices
ClearActiveChoices(u, storeFailed) ==
  LET deleteFailed == DeleteFails(activeChoiceRows, u, storeFailed) IN
  /\ activeChoiceSessions' = clearActiveChoices(u)
  /\ choiceStored' = [choiceStored EXCEPT ![u] = <<>>]
  /\ activeChoiceRows' = IF deleteFailed THEN activeChoiceRows
                         ELSE [activeChoiceRows EXCEPT ![u] = NoRow]
  /\ lastCall' = [Called("clearActiveChoices", u) EXCEPT
                    !.dbFailed = deleteFailed,
                    !.threw = ClearThrows(deleteFailed, storeFailed)]
  /\ UNCHANGED <<now, nextSweep, choiceTimestamp, inputTimestamp,
                 expectedInputTypes, inputStored, expectedInputTypeRows>>

\* session.service.ts:438-461 - clearExpectedInputType
ClearExpectedInputType(u, storeFailed) ==
  LET deleteFailed == DeleteFails(expectedInputTypeRows, u, storeFailed) IN
  /\ expectedInputTypes' = [expectedInputTypes EXCEPT ![u] = NoInput]
  /\ inputStored' = [inputStored EXCEPT ![u] = NoInput]
  /\ expectedInputTypeRows' = IF deleteFailed THEN expectedInputTypeRows
                              ELSE [expectedInputTypeRows EXCEPT ![u] = NoRow]
  /\ lastCall' = [Called("clearExpectedInputType", u) EXCEPT
                    !.dbFailed = deleteFailed,
                    !.threw = ClearThrows(deleteFailed, storeFailed)]
  /\ UNCHANGED <<now, nextSweep, choiceTimestamp, inputTimestamp,
                 activeChoiceSessions, choiceStored, activeChoiceRows>>

\* session.service.ts:72-93 - cleanupExpiredDbRecords: deleteMany where
\* expiresAt < now; a failure is logged
cleanupExpiredDbRecords(rows, storeFailed) ==
  [u \in Users |-> IF ~storeFailed /\ rows[u].present /\ rows[u].expiresAt < now
                     THEN NoRow ELSE rows[u]]

\* session.service.ts:104-131 - the setInterval callback: entries whose
\* timestamp is before fiveMinutesAgo are deleted from both maps, then the
\* expired rows from both tables
Sweep(storeFailed) ==
  LET Old(timestamp) == timestamp < now - SweepAgeMinutes IN
  /\ now >= nextSweep
  /\ nextSweep' = now + SweepIntervalMinutes
  /\ activeChoiceSessions' =
       [u \in Users |-> IF activeChoiceSessions[u].present
                           /\ Old(choiceTimestamp[u])
                          THEN NoChoiceSession ELSE activeChoiceSessions[u]]
  /\ expectedInputTypes' =
       [u \in Users |-> IF expectedInputTypes[u] # NoInput
                           /\ Old(inputTimestamp[u])
                          THEN NoInput ELSE expectedInputTypes[u]]
  /\ activeChoiceRows' = cleanupExpiredDbRecords(activeChoiceRows, storeFailed)
  /\ expectedInputTypeRows' =
       cleanupExpiredDbRecords(expectedInputTypeRows, storeFailed)
  /\ lastCall' = [Called("sweep", 0) EXCEPT !.dbFailed = storeFailed]
  /\ UNCHANGED <<now, choiceTimestamp, inputTimestamp, choiceStored,
                 inputStored>>

CacheNext ==
  \/ Tick /\ UNCHANGED notCacheVars
  \/ \E storeFailed \in BOOLEAN : Sweep(storeFailed) /\ UNCHANGED notCacheVars
  \/ \E loadFailed \in BOOLEAN : Restart(loadFailed) /\ UNCHANGED notCacheVars
  \/ \E u \in Users : GetActiveChoices(u) /\ UNCHANGED notCacheVars
  \/ \E u \in Users : GetExpectedInputType(u) /\ UNCHANGED notCacheVars
  \/ \E u \in Users, choices \in StoredChoices, dbFailed \in BOOLEAN :
       SetActiveChoices(u, choices, dbFailed) /\ UNCHANGED notCacheVars
  \/ \E u \in Users, inputType \in StoredInputTypes, dbFailed \in BOOLEAN :
       SetExpectedInputType(u, inputType, dbFailed) /\ UNCHANGED notCacheVars
  \/ \E u \in Users, storeFailed \in BOOLEAN :
       ClearActiveChoices(u, storeFailed) /\ UNCHANGED notCacheVars
  \/ \E u \in Users, storeFailed \in BOOLEAN :
       ClearExpectedInputType(u, storeFailed) /\ UNCHANGED notCacheVars

CacheSpec == CacheInit /\ [][CacheNext]_vars

(***************************************************************************)
(* The ActiveChoice writes of setActiveChoices and clearActiveChoices when *)
(* their callers do not await them: the map is changed at the call, the    *)
(* row when the store gets to the write.                                   *)
(***************************************************************************)

\* how many writes of one user the store can have outstanding
MaxInFlight == 2

\* session.service.ts:271-288 - what the upsert of setActiveChoices writes
UpsertWrite(sessionId, choices) ==
  [op |-> "upsert", value |-> [sessionId |-> sessionId, choices |-> choices]]

\* session.service.ts:357-361 - the delete of clearActiveChoices
DeleteWrite == [op |-> "delete", value |-> <<>>]

\* the sequence without its i-th element
Without(seq, i) == SubSeq(seq, 1, i - 1) \o SubSeq(seq, i + 1, Len(seq))

\* the ActiveChoice row that goes with a map entry
RowOf(session) ==
  IF session.present
    THEN [present |-> TRUE,
          value |-> [sessionId |-> session.sessionId,
                     choices |-> session.choices],
          createdAt |-> 0, expiresAt |-> SessionTtlMinutes]
    ELSE NoRow

\* the map and the table agree when the process is at rest
WriteInit ==
  /\ LockIdle
  /\ FnQuiet
  /\ NoMessages
  /\ WritesQuiet
  /\ WhitelistQuiet
  /\ ApiQuiet
  /\ NestQuiet
  /\ now = 0
  /\ nextSweep = SweepIntervalMinutes
  /\ choiceTimestamp = [u \in Users |-> 0]
  /\ inputTimestamp = [u \in Users |-> 0]
  /\ choiceStored = [u \in Users |-> <<>>]
  /\ inputStored = [u \in Users |-> NoInput]
  /\ expectedInputTypeRows = [u \in Users |-> NoRow]
  /\ lastCall = NoCall
  /\ expectedInputTypes = [u \in Users |-> NoInput]
  /\ activeChoiceSessions \in
       [Users -> {NoChoiceSession,
                  [present |-> TRUE, sessionId |-> 1,
                   choices |-> ChoiceList, stamp |-> 0]}]
  /\ activeChoiceRows = [u \in Users |-> RowOf(activeChoiceSessions[u])]

\* session.service.ts:251-288 with message-processing.service.ts:1207-1210 -
\* setActiveChoices as handleTypebotInput calls it: the map is set at once,
\* the upsert is handed to the store
IssueSetActiveChoices(u, sessionId, choices) ==
  /\ Len(inFlight[u]) < MaxInFlight
  /\ activeChoiceSessions' = setActiveChoices(u, sessionId, choices, 0)
  /\ inFlight' = [inFlight EXCEPT
                    ![u] = Append(@, UpsertWrite(sessionId, choices))]
  /\ UNCHANGED <<activeChoiceRows, writeFailed>>

\* session.service.ts:349-366 with message-processing.service.ts:484-486,166 -
\* clearActiveChoices as processNumericChoice and the VOLTAR branch call it:
\* the entry is deleted at once, the delete is handed to the store
IssueClearActiveChoices(u) ==
  /\ Len(inFlight[u]) < MaxInFlight
  /\ activeChoiceSessions' = clearActiveChoices(u)
  /\ inFlight' = [inFlight EXCEPT ![u] = Append(@, DeleteWrite)]
  /\ UNCHANGED <<activeChoiceRows, writeFailed>>

\* session.service.ts:274-291,357-365 - the store gets to one of the
\* outstanding writes, in no particular order; a rejection (the store failing,
\* or a delete that finds no row) is caught and the row stays as it was
WriteSettles(u, i, storeFailed) ==
  LET write == inFlight[u][i]
      rejected == storeFailed
                    \/ (write.op = "delete" /\ ~activeChoiceRows[u].present) IN
  /\ inFlight' = [inFlight EXCEPT ![u] = Without(@, i)]
  /\ writeFailed' = [writeFailed EXCEPT ![u] = @ \/ rejected]
  /\ activeChoiceRows' =
       IF rejected THEN activeChoiceRows
       ELSE IF write.op = "upsert"
         THEN upsert(activeChoiceRows, u, write.value)
         ELSE [activeChoiceRows EXCEPT ![u] = NoRow]
  /\ UNCHANGED activeChoiceSessions

WriteNext ==
  \/ \E u \in Users, sessionId \in SessionIds :
        IssueSetActiveChoices(u, sessionId, ChoiceList)
          /\ UNCHANGED notWriteVars
  \/ \E u \in Users : IssueClearActiveChoices(u) /\ UNCHANGED notWriteVars
  \/ \E u \in Users, storeFailed \in BOOLEAN :
        \E i \in 1..Len(inFlight[u]) :
          WriteSettles(u, i, storeFailed) /\ UNCHANGED notWriteVars

WriteSpec == WriteInit /\ [][WriteNext]_vars

(***************************************************************************)
(* The whitelist check of processMessage for users who are not             *)
(* whitelisted, with the whitelist enabled.  Time is in minutes.           *)
(***************************************************************************)

\* message-processing.service.ts:94 - 24 * 60 * 60 * 1000 ms, in minutes
DayMinutes == 1440

\* the clock of this specification moves by half days, up to two days
HalfDay == 720
MaxDays == 2

WhitelistInit ==
  /\ LockIdle
  /\ PipeQuiet
  /\ FnQuiet
  /\ CacheQuiet
  /\ SideQuiet

\* time passes between two steps
HoursPass ==
  /\ now + HalfDay <= MaxDays * DayMinutes
  /\ now' = now + HalfDay
  /\ UNCHANGED whitelistVars

\* message-processing.service.ts:79-83 - processMessage is called (never
\* awaited, webhook.controller.ts:160) and getOrCreateUser returns the user
\* row as it is now
ReadUser(m, u) ==
  /\ wl[m].pc = "idle"
  /\ wl' = [wl EXCEPT ![m] = [pc |-> "checking", waId |-> u,
                              lastNotified |-> lastRejectionNotifiedAt[u],
                              at |-> 0]]
  /\ UNCHANGED <<now, lastRejectionNotifiedAt, rejectionsSent>>

\* message-processing.service.ts:92-96 - shouldNotify
shouldNotify(lastNotified, at) ==
  lastNotified = Never \/ lastNotified < at - DayMinutes

\* message-processing.service.ts:88-119 - isWhitelisted has answered no: the
\* row read before decides; the rejection text is sent, or nothing is
RejectOrSilence(m) ==
  LET u == wl[m].waId IN
  /\ wl[m].pc = "checking"
  /\ IF shouldNotify(wl[m].lastNotified, now)
       THEN /\ rejectionsSent' = [rejectionsSent EXCEPT ![u] = Append(@, now)]
            /\ wl' = [wl EXCEPT ![m].pc = "sent", ![m].at = now]
       ELSE /\ wl' = [wl EXCEPT ![m].pc = "done"]
            /\ UNCHANGED rejectionsSent
  /\ UNCHANGED <<now, lastRejectionNotifiedAt>>

\* message-processing.service.ts:108-112,444-462 - the update of the column
\* after the text was sent; when it is rejected the catch of processMessage
\* takes the error
UpdateLastRejection(m, updateFailed) ==
  LET u == wl[m].waId IN
  /\ wl[m].pc = "sent"
  /\ lastRejectionNotifiedAt' =
       IF updateFailed THEN lastRejectionNotifiedAt
       ELSE [lastRejectionNotifiedAt EXCEPT ![u] = wl[m].at]
  /\ wl' = [wl EXCEPT ![m].pc = "done"]
  /\ UNCHANGED <<now, rejectionsSent>>

WhitelistNext ==
  \/ HoursPass /\ UNCHANGED notWhitelistVars
  \/ \E m \in Msgs, u \in Users : ReadUser(m, u) /\ UNCHANGED notWhitelistVars
  \/ \E m \in Msgs : RejectOrSilence(m) /\ UNCHANGED notWhitelistVars
  \/ \E m \in Msgs, updateFailed \in BOOLEAN :
        UpdateLastRejection(m, updateFailed) /\ UNCHANGED notWhitelistVars

WhitelistSpec == WhitelistInit /\ [][WhitelistNext]_vars

(***************************************************************************)
(* The retry loops around the HTTP request of startChat and continueChat.  *)
(***************************************************************************)

\* retry.ts:8 - defaultRetryOptions.maxAttempts, which withServiceResponse
\* hands to withRetry when it is given no options
DefaultMaxAttempts == 3

\* typebot.service.ts:402 - maxAttempts of the withRetry of makeApiCall
ApiMaxAttempts == 3

RetryInit ==
  /\ LockIdle
  /\ PipeQuiet
  /\ FnQuiet
  /\ CacheQuiet
  /\ SideQuiet

\* typebot.service.ts:37-38,122-123, retry.ts:24 - startChat or continueChat
\* is called: withServiceResponse enters the loop of withRetry, whose
\* operation enters makeApiCall and the loop of its own withRetry
CallApi(m, op) ==
  /\ api[m].status = "idle"
  /\ api' = [api EXCEPT ![m] = [op |-> op, status |-> "running",
                                outerAttempt |-> 1, innerAttempt |-> 1,
                                requests |-> 0]]

\* retry.ts:24-58, twice - where a call stands once its request has been
\* answered: done at the first request that succeeds; after a failure
\* makeApiCall tries again up to its maxAttempts and then throws into the loop
\* of withServiceResponse, which runs the whole operation again up to its own
\* maxAttempts
AfterFetch(call, ok) ==
  LET sent == [call EXCEPT !.requests = @ + 1] IN
  IF ok THEN [sent EXCEPT !.status = "ok"]
  ELSE IF call.innerAttempt < ApiMaxAttempts
    THEN [sent EXCEPT !.innerAttempt = @ + 1]
  ELSE IF call.outerAttempt < DefaultMaxAttempts
    THEN [sent EXCEPT !.outerAttempt = @ + 1, !.innerAttempt = 1]
  ELSE [sent EXCEPT !.status = "failed"]

\* typebot.service.ts:370-405 - the fetch of makeApiCall is sent and answered:
\* a response that is not ok, or a fetch that rejects, is thrown
Fetch(m, ok) ==
  /\ api[m].status = "running"
  /\ api' = [api EXCEPT ![m] = AfterFetch(@, ok)]

RetryNext ==
  \/ \E m \in Msgs, op \in {"startChat", "continueChat"} :
        CallApi(m, op) /\ UNCHANGED notApiVars
  \/ \E m \in Msgs, ok \in BOOLEAN : Fetch(m, ok) /\ UNCHANGED notApiVars

RetrySpec == RetryInit /\ [][RetryNext]_vars

(***************************************************************************)
(* user-lock.ts when an operation calls withUserLock itself, on the key it *)
(* was called with, and awaits the result.                                 *)
(***************************************************************************)

\* the promise of a call on key k that was made before the calls of the
\* model and whose operation is under way when they begin
Earlier(k) == NumCallers + k

\* the calls made from inside the operation of call o
NestedCalls(o) == {c \in Callers : nestedIn[c] = o}

\* user-lock.ts:9,34 - on each key either no call is under way or an earlier
\* one is, whose promise is the entry of the key
NestInit ==
  /\ userLocks \in [Keys -> {NoLock} \cup {Earlier(k) : k \in Keys}]
  /\ \A k \in Keys : userLocks[k] \in {NoLock, Earlier(k)}
  /\ resolved = {}
  /\ lpc = [c \in Callers |-> "idle"]
  /\ waId = [c \in Callers |-> 1]
  /\ existingLock = [c \in Callers |-> NoLock]
  /\ opOutcome = [c \in Callers |-> "none"]
  /\ callResult = [c \in Callers |-> "none"]
  /\ opRuns = [c \in Callers |-> 0]
  /\ sawRunning = [c \in Callers |-> {}]
  /\ PipeQuiet
  /\ FnQuiet
  /\ CacheQuiet
  /\ SideQuiet

\* user-lock.ts:38-45 - the operation of the earlier call settles: its
\* promise is resolved and its entry deleted
EarlierReleases(k) ==
  /\ userLocks[k] = Earlier(k)
  /\ resolved' = resolved \cup {Earlier(k)}
  /\ userLocks' = [userLocks EXCEPT ![k] = NoLock]
  /\ UNCHANGED <<lpc, waId, existingLock, opOutcome, callResult, opRuns,
                 sawRunning>>

\* user-lock.ts:19-37 - the operation of call o, while it runs, calls
\* withUserLock on its own key
NestedWithUserLock(o, c) ==
  /\ lpc[o] = "operating"
  /\ NestedCalls(o) = {}
  /\ withUserLock(c, waId[o])
  /\ nestedIn' = [nestedIn EXCEPT ![c] = o]

\* user-lock.ts:37 - an operation that awaits a withUserLock call settles
\* only once that call has returned or thrown
OuterOperationSettles(c, r) ==
  /\ \A d \in NestedCalls(c) : lpc[d] = "done"
  /\ OperationSettles(c, r)

NestNext ==
  \/ \E k \in Keys : EarlierReleases(k) /\ UNCHANGED notLockVars
  \/ \E c \in Callers, k \in Keys : withUserLock(c, k) /\ UNCHANGED notLockVars
  \/ \E o, c \in Callers : NestedWithUserLock(o, c) /\ UNCHANGED notNestVars
  \/ \E c \in Callers : AwaitExistingLock(c) /\ UNCHANGED notLockVars
  \/ \E c \in Callers, r \in {"ok", "err"} :
        OuterOperationSettles(c, r) /\ UNCHANGED notLockVars
  \/ \E c \in Callers : ReleaseLock(c) /\ UNCHANGED notLockVars

NestSpec == NestInit /\ [][NestNext]_vars

(***************************************************************************)
(* The message pipeline: claims.                                           *)
(***************************************************************************)

\* C2: two messages from the same user are processed strictly one after the
\* other: a processMessage that arrived while another of the same user was in
\* progress has read or written none of that user's session id, ChoiceSet or
\* expected input type until that other one has returned.
C2_SameUserMessagesAreSerialized ==
  \A m \in Msgs :
    Accessed(m) =>
      \A d \in concurrentWith[m] : pm[d].pc \in {"done", "failed"}

\* C7: of two messages of one user in flight together, at most one is resolved
\* against a given ChoiceSet: no two invocations match on the same ChoiceSet.
C7_ChoiceSetConsumedOnce ==
  \A m \in Msgs, d \in Msgs :
    (m # d /\ matchedOn[m] # 0) => matchedOn[m] # matchedOn[d]

\* C8: after continueChat fails with "Session not found" the start call that
\* follows carries the same message as the continue call that failed, on the
\* flow read for the user (the default when none), with the stored session id
\* cleared by this invocation.
C8_RecoveryStartsWithTheSameMessage ==
  \A m \in Msgs :
    (pm[m].pc = "start" /\ pm[m].request.origin = "recovery") =>
      /\ pm[m].request.flow = OrFlow(pm[m].activeTypebotId, DefaultFlow)
      /\ pm[m].request.message = pm[m].recovered.message

\* C9: whenever the pipeline issues a dialogue call, it is a continue on the
\* known session id (the one passed with the message, else the stored one) if
\* there is one, and otherwise a start on the user's stored flow, or on the
\* default flow when the user has none.
C9_Issued(m) ==
  LET u == pm[m].waId
      known == OrSession(pm[m].sessionId, users[u].activeSessionId)
      request == pm'[m].request
  IN
  (pm[m].request = NoRequest /\ request # NoRequest /\ pm[m].pc # "voltar") =>
    IF known # NoSession
      THEN request.op = "continue" /\ request.sessionId = known
      ELSE /\ request.op = "start"
           /\ request.flow = OrFlow(users[u].activeTypebotSlug, DefaultFlow)

\* C9: every dialogue call the pipeline issues follows the decision rule:
\* continue on the known session id, else start on the user's stored flow or
\* the default.
C9_ContinueWhenSessionKnownElseStartOnActiveFlow ==
  [][\A m \in Msgs : C9_Issued(m)]_vars

\* C10: a continueChat failure other than "Session not found" leaves the user's
\* session id and flow as they were, makes no start call, and fails the
\* message with that error.
C10_OtherFailure(m) ==
  (pm[m].pc = "continue" /\ pm'[m].error = "Typebot API error") =>
    /\ users' = users
    /\ startCalls' = startCalls
    /\ pm'[m].pc = "failed"
    /\ pm'[m].request = NoRequest

\* C10: every step on which continueChat fails with an error other than
\* "Session not found" changes no user row, starts nothing and fails the message.
C10_OtherContinueFailuresOnlyFail ==
  [][\A m \in Msgs : C10_OtherFailure(m)]_vars

\* C10 witness: a message has failed on a continueChat error of another class,
\* with no start call made for it.
C10_Witness ==
  \E m \in Msgs :
    /\ pm[m].pc = "failed"
    /\ pm[m].error = "Typebot API error"
    /\ startCalls[m] = 0


(***************************************************************************)
(* Redirects and response handling: claims.                                *)
(***************************************************************************)

\* C11: a redirect url whose path is /flows/newflow resolves to the flow
\* "newflow"; otherwise the target is the only path segment, or the second one
\* after the collection prefix, or else one of the query aliases.
C11_FlowsUrlResolvesToNewflow ==
  (newTypebotSlug # NotRun /\ redirectUrl.parses) =>
    LET pathSegments == NonEmptySegments(redirectUrl.path) IN
    IF pathSegments = <<"flows", "newflow">> THEN newTypebotSlug = "newflow"
    ELSE IF Len(pathSegments) = 1 THEN newTypebotSlug = pathSegments[1]
    ELSE IF Len(pathSegments) >= 2 /\ pathSegments[1] = "typebots"
      THEN newTypebotSlug = pathSegments[2]
    ELSE newTypebotSlug = QueryTypebotId(redirectUrl)
                            \/ (QueryTypebotId(redirectUrl) = NoParam
                                  /\ newTypebotSlug = NoFlow)

\* the step on which invocation m sends its response on
Handles(m) == handled[m] = NotHandled /\ handled'[m] # NotHandled

\* C12: applying a redirect sets the user's active flow to the target of the
\* redirect and leaves the user's active session id as it was before the
\* response was processed.
C12_Redirect(m) ==
  LET u == pm[m].waId IN
  (Handles(m) /\ handled'[m].redirect = "applied") =>
    /\ users'[u].activeTypebotSlug = OtherFlow
    /\ users'[u].activeSessionId = users[u].activeSessionId

\* C12: a redirect that is applied changes the active flow and nothing of the
\* active session id.
C12_RedirectKeepsTheSessionId == [][\A m \in Msgs : C12_Redirect(m)]_vars

\* the step on which a startChat of invocation m succeeds: the session id it
\* returned is stored for the user
StartSucceeds(m) ==
  LET u == pm[m].waId
      sid == FreshSessionId(m, pm[m].request.origin)
  IN
  /\ pm[m].request.op = "start"
  /\ users[u].activeSessionId # sid
  /\ users'[u].activeSessionId = sid

\* C13: every successful start or continue response is handed to the redirect
\* inspection of sendTypebotResponse: after the call has succeeded the
\* invocation is about to send that response on.
C13_EveryResponseIsInspected ==
  [][\A m \in Msgs : StartSucceeds(m) => pm'[m].pc = "respond"]_vars

\* C14: when a redirect cannot be applied (no flow in its url, or the remote
\* update failed) the user's flow and session id stay as they were and the
\* response is processed all the same: messages sent, input recorded.
C14_FailedRedirect(m) ==
  LET u == pm[m].waId IN
  (Handles(m) /\ handled'[m].redirect \in {"unresolvable", "update failed"}) =>
    /\ users' = users
    /\ handled'[m].sent
    /\ pm'[m].pc = "done"
    /\ handled'[m].input = "choice input" =>
         /\ activeChoiceSessions'[u].present
         /\ activeChoiceSessions'[u].stamp = m
    /\ handled'[m].input # NoInput =>
         expectedInputTypes'[u] = handled'[m].input

\* C14: a redirect that fails changes no user row and does not stop the
\* processing of its response.
C14_FailedRedirectIsSkipped == [][\A m \in Msgs : C14_FailedRedirect(m)]_vars

\* C14 witness: a response whose redirect failed has been sent on and its
\* choice input is the user's ChoiceSet.
C14_Witness ==
  \E m \in Msgs :
    /\ handled[m].redirect \in {"unresolvable", "update failed"}
    /\ handled[m].input = "choice input"
    /\ activeChoiceSessions[pm[m].waId].stamp = m
    /\ expectedInputTypes[pm[m].waId] = "choice input"

\* C15: after a response that declares no input has been processed, the user
\* has no live ChoiceSet and no live expected input type.
C15_NoInput(m) ==
  LET u == pm[m].waId IN
  (Handles(m) /\ handled'[m].input = NoInput) =>
    /\ ~activeChoiceSessions'[u].present
    /\ expectedInputTypes'[u] = NoInput

\* C15: a response without input clears the ChoiceSet and the expected input.
C15_NoInputClearsBoth == [][\A m \in Msgs : C15_NoInput(m)]_vars

\* C16: after a response that declares a choice input has been processed, the
\* user's ChoiceSet is the one of that response (its choices, its session id,
\* set anew by this invocation), whatever was there before; after a response
\* that declares another input, the expected input type is that kind.
C16_Input(m) ==
  LET u == pm[m].waId IN
  Handles(m) =>
    /\ handled'[m].input = "choice input" =>
         activeChoiceSessions'[u] =
           [present |-> TRUE, sessionId |-> pm[m].sessionId,
            choices |-> ChoiceList, stamp |-> m]
    /\ handled'[m].input \notin {NoInput, "choice input"} =>
         expectedInputTypes'[u] = handled'[m].input

TriesChoices(m) ==
  \/ pm[m].pc = "content" /\ pm[m].type = "text" /\ pm'[m].pc = "interact"
       /\ activeChoiceSessions[pm[m].waId].present
  \/ pm[m].pc = "enhance" /\ pm'[m].pc = "interact"

\* the ChoiceSet that step works on
TriedChoices(m) ==
  IF pm[m].pc = "enhance" THEN pm[m].activeChoices.choices
                          ELSE activeChoiceSessions[pm[m].waId].choices

\* C17: on a match the content that goes on is the content of a choice of the
\* ChoiceSet and the user has no live ChoiceSet after the step; with no match
\* the content stays what it was and the ChoiceSet is left alone.
C17_Resolve(m) ==
  LET u == pm[m].waId IN
  TriesChoices(m) =>
    IF matchedOn'[m] # matchedOn[m]
      THEN /\ \E i \in 1..Len(TriedChoices(m)) :
                pm'[m].finalContent = TriedChoices(m)[i].content
           /\ ~activeChoiceSessions'[u].present
      ELSE /\ pm'[m].finalContent = pm[m].finalContent
           /\ activeChoiceSessions' = activeChoiceSessions

\* C17: the content handed to the dialogue service is the content resolved,
\* when no file goes with the message.
C17_Sent(m) ==
  (pm[m].request = NoRequest /\ pm'[m].request # NoRequest
     /\ pm'[m].request.origin \in {"interact", "recovery"}
     /\ pm[m].fileUrl = NoFile) =>
    pm'[m].request.message = pm[m].finalContent

\* C17: a match substitutes the choice's content and consumes the ChoiceSet,
\* no match changes neither, and what was resolved is what is sent.
C17_MatchSubstitutesAndClears ==
  [][\A m \in Msgs : C17_Resolve(m) /\ C17_Sent(m)]_vars

\* C17 witness: an audio message was matched on the ChoiceSet, the choice's
\* content is on its way to the dialogue service and the ChoiceSet is gone.
C17_Witness ==
  \E m \in Msgs :
    /\ pm[m].type = "audio"
    /\ matchedOn[m] # 0
    /\ pm[m].request.op = "continue"
    /\ pm[m].request.message = "Sim"
    /\ ~activeChoiceSessions[pm[m].waId].present

\* C18: with an active ChoiceSet a text resolves to the same effective message
\* whether it is typed or spoken (stated for the texts that the matcher
\* decides by number, number word or containment, whatever Fuse would say).
C18_TypedAndSpokenResolveAlike ==
  (/\ typedContent # NotRun
   /\ spokenContent # NotRun
   /\ matchTranscriptionToChoice(utterance, ChoiceList, 0) # 0) =>
    typedContent = spokenContent

(***************************************************************************)
(* The caches under the clock: claims.                                     *)
(***************************************************************************)

\* the age of an entry, in minutes
Age(timestamp) == now - timestamp

\* C19: a getter called while an entry is stored, neither cleared nor
\* replaced since, returns null and leaves no entry when the entry is older
\* than 30 minutes, and returns the stored value when it is at most 30
\* minutes old.
C19_Getter(u) ==
  /\ (lastCall'.op = "getActiveChoices" /\ lastCall'.waId = u
        /\ choiceStored[u] # <<>>) =>
       IF Age(choiceTimestamp[u]) > SessionTtlMinutes
         THEN lastCall'.null /\ ~activeChoiceSessions'[u].present
         ELSE ~lastCall'.null /\ lastCall'.choices = choiceStored[u]
  /\ (lastCall'.op = "getExpectedInputType" /\ lastCall'.waId = u
        /\ inputStored[u] # NoInput) =>
       IF Age(inputTimestamp[u]) > SessionTtlMinutes
         THEN lastCall'.null /\ expectedInputTypes'[u] = NoInput
         ELSE ~lastCall'.null /\ lastCall'.inputType = inputStored[u]

\* C19: the getters return null and evict past 30 minutes, and return the
\* stored value up to 30 minutes.
C19_GettersHonourTheTtl == [][\A u \in Users : C19_Getter(u)]_vars

\* C19, on the entries that are in the map when the getter is called: null
\* and eviction past 30 minutes, the value of the entry up to 30 minutes.
GetterOnPresentEntry(u) ==
  /\ (lastCall'.op = "getActiveChoices" /\ lastCall'.waId = u
        /\ activeChoiceSessions[u].present) =>
       IF Age(choiceTimestamp[u]) > SessionTtlMinutes
         THEN lastCall'.null /\ ~activeChoiceSessions'[u].present
         ELSE /\ ~lastCall'.null
              /\ lastCall'.choices = activeChoiceSessions[u].choices
              /\ activeChoiceSessions'[u] = activeChoiceSessions[u]
  /\ (lastCall'.op = "getExpectedInputType" /\ lastCall'.waId = u
        /\ expectedInputTypes[u] # NoInput) =>
       IF Age(inputTimestamp[u]) > SessionTtlMinutes
         THEN lastCall'.null /\ expectedInputTypes'[u] = NoInput
         ELSE /\ ~lastCall'.null
              /\ lastCall'.inputType = expectedInputTypes[u]
              /\ expectedInputTypes'[u] = expectedInputTypes[u]

GettersHonourTheTtlOnPresentEntries ==
  [][\A u \in Users : GetterOnPresentEntry(u)]_vars

\* C20: the sweep removes no entry that is younger than the 30-minute TTL.
C20_Sweep(u) ==
  lastCall'.op = "sweep" =>
    /\ (activeChoiceSessions[u].present
          /\ Age(choiceTimestamp[u]) < SessionTtlMinutes) =>
         activeChoiceSessions'[u] = activeChoiceSessions[u]
    /\ (expectedInputTypes[u] # NoInput
          /\ Age(inputTimestamp[u]) < SessionTtlMinutes) =>
         expectedInputTypes'[u] = expectedInputTypes[u]

\* C20: an entry younger than its TTL survives every run of the sweep.
C20_SweepRemovesOnlyExpired == [][\A u \in Users : C20_Sweep(u)]_vars

\* C21: right after loadPersistedState has read the tables, getActiveChoices
\* returns the choices of every ActiveChoice row whose expiresAt is in the
\* future, and no entry exists for a row that is past its expiresAt.
C21_ChoiceSetsSurviveRestart ==
  (lastCall.op = "loadPersistedState" /\ ~lastCall.dbFailed) =>
    \A u \in Users :
      LET row == activeChoiceRows[u] IN
      /\ (row.present /\ row.expiresAt > now) => getActiveChoices(u) = row.value
      /\ (row.present /\ row.expiresAt <= now) =>
           ~activeChoiceSessions[u].present

\* C22: a call of setActiveChoices or setExpectedInputType whose upsert fails
\* does not throw, and the getter then returns the value of the call.
C22_Set(u) ==
  /\ (lastCall'.op = "setActiveChoices" /\ lastCall'.waId = u
        /\ lastCall'.dbFailed) =>
       ~lastCall'.threw /\ getActiveChoices(u)' = choiceStored'[u]
  /\ (lastCall'.op = "setExpectedInputType" /\ lastCall'.waId = u
        /\ lastCall'.dbFailed) =>
       ~lastCall'.threw /\ getExpectedInputType(u)' = inputStored'[u]

\* C22: a failing durable write does not block the in-memory update.
C22_FailedWriteDoesNotBlock == [][\A u \in Users : C22_Set(u)]_vars

\* C22 witness: setActiveChoices has failed to write the row, the getter
\* returns the new ChoiceSet and the table does not hold it.
C22_Witness ==
  \E u \in Users :
    /\ lastCall.op = "setActiveChoices"
    /\ lastCall.waId = u
    /\ lastCall.dbFailed
    /\ ~lastCall.threw
    /\ getActiveChoices(u) \in StoredChoices
    /\ activeChoiceRows[u].value # getActiveChoices(u)

\* C23: a set or clear whose durable upsert or delete fails throws to its
\* caller.
C23_StoreErrorsAreRethrown ==
  [][(/\ lastCall'.op \in {"setActiveChoices", "setExpectedInputType",
                           "clearActiveChoices", "clearExpectedInputType"}
      /\ lastCall'.dbFailed) => lastCall'.threw]_vars

\* C25: every call of clearActiveChoices, whether or not a ChoiceSet or its
\* row exists, returns without throwing and leaves the user without a
\* ChoiceSet.
C25_Clear(u) ==
  (lastCall'.op = "clearActiveChoices" /\ lastCall'.waId = u) =>
    /\ ~lastCall'.threw
    /\ ~activeChoiceSessions'[u].present
    /\ getActiveChoices(u)' = <<>>

\* C25: clearActiveChoices is idempotent.
C25_ClearIsIdempotent == [][\A u \in Users : C25_Clear(u)]_vars

\* C25 witness: clearActiveChoices was called a second time in a row, found
\* no row to delete, did not throw, and the user has no ChoiceSet.
C25_Witness ==
  \E u \in Users :
    /\ lastCall.op = "clearActiveChoices"
    /\ lastCall.waId = u
    /\ lastCall.again
    /\ lastCall.dbFailed
    /\ ~activeChoiceRows[u].present
    /\ ~lastCall.threw
    /\ ~activeChoiceSessions[u].present

(***************************************************************************)
(* setActiveTypebotId: claims.                                             *)
(***************************************************************************)

\* C24: a call of setActiveTypebotId that succeeds stores the given flow; it
\* stores the given session id when one is passed, stores none when null is
\* passed, and keeps the stored session id when the argument is left out.
C24_Set(u) ==
  (setCall'.waId = u /\ setCall'.success) =>
    /\ users'[u].activeTypebotSlug = setCall'.typebotSlug
    /\ setCall'.sessionId \in SessionIds =>
         users'[u].activeSessionId = setCall'.sessionId
    /\ setCall'.sessionId = SessionNull =>
         users'[u].activeSessionId = NoSession
    /\ setCall'.sessionId = SessionOmitted =>
         users'[u].activeSessionId = users[u].activeSessionId

\* C24: setActiveTypebotId sets the flow and treats the three forms of the
\* session id argument as stated.
C24_SessionIdArgument == [][\A u \in Users : C24_Set(u)]_vars

\* C24 witness: setActiveTypebotId was called without a session id, the flow
\* is the one given and a session id is still stored.
C24_Witness ==
  /\ setCall.waId \in Users
  /\ setCall.success
  /\ setCall.sessionId = SessionOmitted
  /\ users[setCall.waId].activeTypebotSlug = setCall.typebotSlug
  /\ users[setCall.waId].activeSessionId \in SessionIds

(***************************************************************************)
(* matchTranscriptionToChoice: claims.                                     *)
(***************************************************************************)

\* the matcher has run on a transcription that is not blank and a list of
\* choices that is not empty
Matched == matchResult.ran /\ heard \notin {"", " "} /\ Len(offered) > 0

\* what each stage finds for the transcription heard, 0 when it misses
DigitHit == DigitMatch(cleanText(heard), offered)
WordHit == SpokenNumberMatch(cleanText(heard), offered)
ExactHit == findExactMatch(cleanText(heard), offered)

\* C26: the result is the hit of the first stage that hits, in the order
\* numeric literal, spoken-number word, exact containment, fuzzy similarity.
C26_StagesInPriorityOrder ==
  Matched =>
    /\ DigitHit # 0 => matchResult.index = DigitHit
    /\ (DigitHit = 0 /\ WordHit # 0) => matchResult.index = WordHit
    /\ (DigitHit = 0 /\ WordHit = 0 /\ ExactHit # 0) =>
         matchResult.index = ExactHit
    /\ (DigitHit = 0 /\ WordHit = 0 /\ ExactHit = 0) =>
         matchResult.matchType \in {"fuzzy", "none"}

\* C26 witness: the transcription holds a number that selects one choice and
\* the label of another one, and the number has decided.
C26_Witness ==
  /\ Matched
  /\ DigitHit # 0
  /\ ExactHit # 0
  /\ ExactHit # DigitHit
  /\ matchResult.index = DigitHit

\* the values of the integer tokens of the transcription heard, in order
IntegerTokens ==
  LET IsDigits(word) == DigitValue(word) # 0
      tokens == SelectSeq(cleanText(heard), IsDigits)
  IN [i \in 1..Len(tokens) |-> DigitValue(tokens[i])]

\* C27: when the first integer token n numbers a choice, the result is that
\* choice with score 1.0 ("2" selects b of [a: Sim, b: Nao]); when it does
\* not, no integer token decides the result.
C27_FirstIntegerTokenOnly ==
  (Matched /\ Len(IntegerTokens) > 0) =>
    IF IntegerTokens[1] <= Len(offered)
      THEN /\ matchResult.index = IntegerTokens[1]
           /\ matchResult.score = 10
           /\ (heard = "2" /\ offered = ChoiceList) =>
                offered[matchResult.index].id = "b"
      ELSE /\ WordHit # 0 => matchResult.index = WordHit
           /\ (WordHit = 0 /\ ExactHit # 0) => matchResult.index = ExactHit
           /\ (WordHit = 0 /\ ExactHit = 0) =>
                matchResult.matchType \in {"fuzzy", "none"}

\* C27 witness: the first integer token is out of range, a later one is in
\* range, and the matcher has returned null.
C27_Witness ==
  /\ Matched
  /\ Len(IntegerTokens) > 1
  /\ IntegerTokens[1] > Len(offered)
  /\ IntegerTokens[2] <= Len(offered)
  /\ matchResult.index = 0

\* the number a transcription names when it is a cardinal or an ordinal
\* number word, 0 when it is not one
NumberNamed(text) ==
  CASE text = "um" -> 1
    [] text \in {"dois", "segundo"} -> 2
    [] text \in {"tres", "tr^es"} -> 3
    [] text = "vinte e um" -> 21
    [] OTHER -> 0

\* C28: a transcription that is a number word for n, with at least n
\* choices, resolves to choice n with score 1.0.
C28_NumberWordsResolve ==
  (Matched /\ NumberNamed(heard) # 0 /\ NumberNamed(heard) <= Len(offered)) =>
    matchResult.index = NumberNamed(heard) /\ matchResult.score = 10

\* the choices whose label contains the transcription heard or is contained
\* in it
Qualifying ==
  {i \in 1..Len(offered) :
     \/ Includes(cleanText(heard), cleanText(offered[i].content))
     \/ Includes(cleanText(offered[i].content), cleanText(heard))}

\* C29: when no number decides, the result is the earliest choice of the list
\* that contains the transcription or is contained in it, with score 1.0.
C29_EarliestContainedChoice ==
  (Matched /\ DigitHit = 0 /\ WordHit = 0 /\ Qualifying # {}) =>
    /\ matchResult.index \in Qualifying
    /\ \A i \in Qualifying : matchResult.index <= i
    /\ matchResult.score = 10

\* C29 witness: two choices qualify, the one that comes second in the
\* transcription is the first of the list, and it is the result.
C29_Witness ==
  /\ Matched
  /\ heard = "nao sim"
  /\ Qualifying = {1, 2}
  /\ matchResult.index = 1
  /\ matchResult.matchType = "exact"

\* C30: the result is null for a blank transcription, for an empty list and
\* when no stage hits; a result that is not null is one of the choices given
\* with a score from 0.4 to 1.0.
C30_NullOrAChoiceWithAScore ==
  matchResult.ran =>
    /\ (heard \in {"", " "} \/ Len(offered) = 0) => matchResult.index = 0
    /\ matchResult.matchType = "none" <=> matchResult.index = 0
    /\ matchResult.index # 0 =>
         /\ matchResult.index \in 1..Len(offered)
         /\ matchResult.score >= 4
         /\ matchResult.score <= 10

\* C30 witness: no number and no label was found, Fuse had no result with a
\* confidence of 0.4, and the matcher has returned null.
C30_Witness ==
  /\ Matched
  /\ DigitHit = 0
  /\ WordHit = 0
  /\ ExactHit = 0
  /\ matchResult.index = 0
  /\ heard = "xyz"

(***************************************************************************)
(* The message pipeline: further claims.                                   *)
(***************************************************************************)

\* C31: the step that rejects a message with a malformed waId changes no user
\* row, no ChoiceSet and no expected input type and makes no dialogue call,
\* and a rejected message takes no further step.
C31_Rejected(m) ==
  /\ (pm[m].pc = "idle" /\ pm'[m].pc = "rejected") =>
       /\ UNCHANGED <<users, activeChoiceSessions, expectedInputTypes,
                      startCalls>>
       /\ pm'[m].request = NoRequest
  /\ pm[m].pc = "rejected" => pm'[m] = pm[m]

\* C31: a message whose user identity is malformed is rejected before any
\* state is touched.
C31_MalformedIdTouchesNothing == [][\A m \in Msgs : C31_Rejected(m)]_vars

\* C31 witness: a message was rejected and its sender has no user row.
C31_Witness ==
  \E m \in Msgs : pm[m].pc = "rejected" /\ ~users[pm[m].waId].exists

\* C32: when a typed message of a user is rewritten to a choice label and
\* another message of that user has had its response delivered, that
\* response, the most recent one, declared a choice input.
C32_Rewrite(m, last) ==
  (/\ matchedOn'[m] # matchedOn[m]
   /\ pm[m].type = "text"
   /\ last # m
   /\ pm[last].waId = pm[m].waId
   /\ handled[last].sent = TRUE) =>
    handled[last].input = "choice input"

\* C32: a ChoiceSet left over from an earlier turn never rewrites a later
\* typed message.
C32_OnlyAFreshChoiceSetRewrites ==
  [][\A m \in Msgs, last \in Msgs : C32_Rewrite(m, last)]_vars

\* C33: once every write issued for a user has settled and none was
\* rejected, the user has an ActiveChoice row exactly when the map has a
\* ChoiceSet for the user, and the row has the session id and the choices of
\* the map entry.
C33_StoreAgreesWithTheMap ==
  \A u \in Users :
    (inFlight[u] = <<>> /\ ~writeFailed[u]) =>
      /\ activeChoiceRows[u].present = activeChoiceSessions[u].present
      /\ activeChoiceSessions[u].present =>
           activeChoiceRows[u].value =
             [sessionId |-> activeChoiceSessions[u].sessionId,
              choices |-> activeChoiceSessions[u].choices]

\* C34: when the start call of a VOLTAR reset returns, with or without
\* success, and no other message of the user has arrived, the user has no
\* ChoiceSet, the stored flow is the default flow and the stored session id
\* is the one this reset started, or none: never the one stored before.
C34_ResetReturns(m) ==
  (/\ pm[m].pc = "voltarStart"
   /\ pm'[m].pc # "voltarStart"
   /\ \A other \in Msgs \ {m} : pm[other].pc = "idle") =>
    /\ ~activeChoiceSessions'[pm[m].waId].present
    /\ users'[pm[m].waId].activeTypebotSlug = DefaultFlow
    /\ users'[pm[m].waId].activeSessionId
         \in {NoSession, FreshSessionId(m, "voltar")}

\* C34: a VOLTAR reset leaves nothing of the session that was active before it.
C34_ResetDropsTheOldSession == [][\A m \in Msgs : C34_ResetReturns(m)]_vars

\* C35: a transcription that is not blank and of which cleanText leaves
\* nothing matches no choice, when cleanText leaves something of every label.
C35_NothingLeftMatchesNothing ==
  (/\ matchResult.ran
   /\ heard \notin {"", " "}
   /\ cleanText(heard) = <<>>
   /\ offered # <<>>
   /\ \A i \in 1..Len(offered) : cleanText(offered[i].content) # <<>>) =>
    matchResult.index = 0

\* C36: two rejection texts sent to the same user are at least 24 hours
\* apart.
C36_OneRejectionADay ==
  \A u \in Users :
    \A i, j \in 1..Len(rejectionsSent[u]) :
      i < j => rejectionsSent[u][j] - rejectionsSent[u][i] >= DayMinutes

\* C37: one startChat or continueChat sends its request at most maxAttempts
\* (3) times.
C37_AtMostThreeRequests == \A m \in Msgs : api[m].requests <= ApiMaxAttempts

\* C39: once every withUserLock call made on a key has returned or thrown,
\* the map has no entry for the key; with no call under way on any key
\* getActiveLockCount is 0.
C39_NoEntryOnceAllSettled ==
  /\ \A k \in Keys :
       (\A c \in Dispatched(k) : lpc[c] = "done") => userLocks[k] = NoLock
  /\ (\A c \in Callers : lpc[c] \in {"idle", "done"}) => getActiveLockCount = 0

\* C39: three calls on one key have all settled, two of them after waiting
\* for the lock of the third, and the map has no entry for the key.
C39_Witness ==
  \E k \in Keys :
    \E a, b, c \in Dispatched(k) :
      /\ Dispatched(k) = {a, b, c}
      /\ \A d \in Dispatched(k) : lpc[d] = "done"
      /\ existingLock[b] = a /\ existingLock[c] = a /\ b # c
      /\ userLocks[k] = NoLock

\* C38: a withUserLock call made from inside an operation running under
\* withUserLock on the same key never runs its operation and never returns,
\* and the outer call never releases.
C38_NestedCallDeadlocks ==
  \A c \in Callers :
    nestedIn[c] # NoLock =>
      /\ opRuns[c] = 0
      /\ callResult[c] = "none"
      /\ lpc[nestedIn[c]] = "operating"

====
